---------------------------- MODULE Spec2Model ----------------------------
(***************************************************************************)
(* Model of class Random (include/random.hpp): a PCG-XSH-RR generator with *)
(* a 64-bit state and a 64-bit stream selector, its seeding procedure and  *)
(* the operations derived from rand().                                     *)
(*                                                                         *)
(* Unsigned machine words are little-endian tuples of bytes (a u64 is 8    *)
(* bytes, a u32 is 4 bytes), so that every operation keeps the width the   *)
(* C++ type has: the 64-bit multiply-add wraps modulo 2^64, the 32-bit     *)
(* shifts drop the bits shifted out, and int arithmetic is 32 bits wide.   *)
(***************************************************************************)
EXTENDS Integers, Sequences, FiniteSets, TLC

(***************************************************************************)
(* Machine words                                                           *)
(***************************************************************************)

\* a function on 1..n as a tuple (a function constructor is evaluated lazily,
\* element by element, on every use; a tuple holds its elements)
Tuple(f) == f \o <<>>

\* unsigned zero-extension of a byte tuple to n bytes (u32 -> u_least64)
Widen(a, n) == Tuple([k \in 1..n |-> IF k <= Len(a) THEN a[k] ELSE 0])

\* truncation of a byte tuple to its low n bytes (static_cast<u_least32>)
Trunc(a, n) == Tuple([k \in 1..n |-> a[k]])

RECURSIVE Word(_, _)
\* the integer x as an n-byte word: x modulo 2^(8 * n), two's complement
Word(x, n) == IF n = 0 THEN <<>> ELSE <<x % 256>> \o Word(x \div 256, n - 1)

RECURSIVE AddBytes(_, _, _, _)
AddBytes(a, b, k, carry) ==
    IF k > Len(a) THEN <<>>
    ELSE LET s == a[k] + b[k] + carry
         IN  <<s % 256>> \o AddBytes(a, b, k + 1, s \div 256)

\* a + b modulo 2^(8 * Len(a)): unsigned addition wraps
Add(a, b) == AddBytes(a, b, 1, 0)

RECURSIVE Dot(_, _, _, _)
Dot(a, b, k, i) ==
    IF i > k THEN 0 ELSE a[i] * b[k + 1 - i] + Dot(a, b, k, i + 1)

RECURSIVE MulBytes(_, _, _, _)
MulBytes(a, b, k, carry) ==
    IF k > Len(a) THEN <<>>
    ELSE LET s == carry + Dot(a, b, k, 1)
         IN  <<s % 256>> \o MulBytes(a, b, k + 1, s \div 256)

\* a * b modulo 2^(8 * Len(a)): unsigned multiplication wraps
Mul(a, b) == MulBytes(a, b, 1, 0)

\* a >> n on a word of Len(a) bytes, 0 <= n < 8 * Len(a)
Shr(a, n) ==
    LET q == n \div 8
        r == n % 8
        L == Len(a)
    IN  Tuple([k \in 1..L |->
            LET lo == IF k + q <= L THEN a[k + q] ELSE 0
                hi == IF k + q + 1 <= L THEN a[k + q + 1] ELSE 0
            IN  (lo \div (2 ^ r)) + (hi % (2 ^ r)) * (2 ^ (8 - r))])

\* a << n on a word of Len(a) bytes, 0 <= n < 8 * Len(a): high bits are lost
Shl(a, n) ==
    LET q == n \div 8
        r == n % 8
        L == Len(a)
    IN  Tuple([k \in 1..L |->
            LET hi == IF k - q >= 1 THEN a[k - q] ELSE 0
                lo == IF k - q - 1 >= 1 THEN a[k - q - 1] ELSE 0
            IN  ((hi * (2 ^ r)) % 256) + (lo \div (2 ^ (8 - r)))])

RECURSIVE XorByte(_, _, _)
XorByte(x, y, i) ==
    IF i > 7 THEN 0
    ELSE (((x \div (2 ^ i)) + (y \div (2 ^ i))) % 2) * (2 ^ i) + XorByte(x, y, i + 1)

RECURSIVE OrByte(_, _, _)
OrByte(x, y, i) ==
    IF i > 7 THEN 0
    ELSE (IF (x \div (2 ^ i)) % 2 = 1 \/ (y \div (2 ^ i)) % 2 = 1 THEN 2 ^ i ELSE 0)
         + OrByte(x, y, i + 1)

\* a ^ b
Xor(a, b) == Tuple([k \in 1..Len(a) |-> XorByte(a[k], b[k], 0)])

\* a | b
Or(a, b) == Tuple([k \in 1..Len(a) |-> OrByte(a[k], b[k], 0)])

\* bit i (0 = least significant) of a word
Bit(a, i) == (a[(i \div 8) + 1] \div (2 ^ (i % 8))) % 2

(***************************************************************************)
(* The generator step                                                      *)
(***************************************************************************)

\* 6364136223846793005ULL = 0x5851F42D4C957F2D
MULTIPLIER == <<45, 127, 149, 76, 45, 244, 81, 88>>

\* 0x853c49e6748fea9bULL
MIXER == <<155, 234, 143, 116, 230, 73, 60, 133>>

\* the state update without the stream added
RandStateNoStream(g) == Mul(g.State, MULTIPLIER)

\* m_generatorState.State after rand() on generator g
RandState(g) == Add(Mul(g.State, MULTIPLIER), g.Sequence)

\* the output with the rotation amount taken one bit too low (old >> 58)
OutputShift58(old_state) ==
    LET xor_shifted == Trunc(Shr(Xor(Shr(old_state, 18), old_state), 27), 4)
        rot         == Shr(old_state, 58)[1]
    IN  Or(Shr(xor_shifted, rot % 32), Shl(xor_shifted, (0 - rot) % 32))

\* the XSH-RR output computed from a 64-bit state
Output(old_state) ==
    LET xor_shifted == Trunc(Shr(Xor(Shr(old_state, 18), old_state), 27), 4)
        rot         == Shr(old_state, 59)[1]
    IN  Or(Shr(xor_shifted, rot), Shl(xor_shifted, (0 - rot) % 32))

\* rand() with the output taken from the state it has just written
RandValueOfNewState(g) == Output(RandState(g))

\* the value rand() returns on generator g (g is the state before the call)
RandValue(g) == Output(g.State)

\* rand(): the generator after the call
RandBumpsStream(g) ==
    [State |-> RandState(g), Sequence |-> Add(g.Sequence, Word(2, 8))]

Rand(g) == [State |-> RandState(g), Sequence |-> g.Sequence]


(***************************************************************************)
(* int arithmetic (32 bits) and the unsigned remainder                     *)
(***************************************************************************)

INT_MAX == 2147483647

INT_MIN == -2147483647 - 1

\* conversion of an int to unsigned int: the value modulo 2^32
ToU32(x) == Word(x, 4)

\* conversion of an unsigned int to int (modular since C++20)
ToInt(w) ==
    LET low == w[3] * 65536 + w[2] * 256 + w[1]
    IN  IF w[4] >= 128 THEN INT_MIN + ((w[4] - 128) * 16777216 + low)
        ELSE w[4] * 16777216 + low

\* ~a
Not(a) == Tuple([k \in 1..Len(a) |-> 255 - a[k]])

\* a - b modulo 2^(8 * Len(a))
Sub(a, b) == Add(Add(a, Not(b)), Word(1, Len(a)))

RECURSIVE ModBits(_, _, _, _, _, _)
\* binary long division on 16-bit halves: (rh, rl) is the running remainder,
\* which stays below the divisor (dh, dl), so 2 * r + 1 needs 33 bits at most
ModBits(a, dh, dl, i, rh, rl) ==
    IF i < 0 THEN <<rl % 256, rl \div 256, rh % 256, rh \div 256>>
    ELSE LET l2 == 2 * rl + Bit(a, i)
             h  == 2 * rh + (l2 \div 65536)
             l  == l2 % 65536
         IN  IF h > dh \/ (h = dh /\ l >= dl)
             THEN IF l >= dl THEN ModBits(a, dh, dl, i - 1, h - dh, l - dl)
                  ELSE ModBits(a, dh, dl, i - 1, h - dh - 1, l + 65536 - dl)
             ELSE ModBits(a, dh, dl, i - 1, h, l)

\* a % d for unsigned int a and unsigned int d # 0
Mod32(a, d) == ModBits(a, d[4] * 256 + d[3], d[2] * 256 + d[1], 31, 0, 0)

RECURSIVE ModFold(_, _, _, _)
ModFold(a, n, k, r) ==
    IF k = 0 THEN r ELSE ModFold(a, n, k - 1, (r * 256 + a[k]) % n)

\* a % n for unsigned int a and a std::size_t n with 0 < n < 2^23
ModSize(a, n) == ModFold(a, n, Len(a), 0)

\* does max - min + 1, evaluated in int, leave the range of int?
RangeOverflows(min, max) ==
    \/ min <= 0 /\ max >= INT_MAX + min
    \/ min > 0 /\ max < INT_MIN + min

\* max - min + 1 converted to unsigned int (the wrapped value on overflow)
RangeDivisor(min, max) == Add(Sub(ToU32(max), ToU32(min)), Word(1, 4))

(***************************************************************************)
(* f32 arithmetic: IEEE 754 binary32, round to nearest, ties to even       *)
(*                                                                         *)
(* A finite f32 is (-1)^s * m * 2^e with 0 <= m < 2^24 and e >= -149, kept *)
(* in one form: m >= 2^23 (a normal number), or e = -149 (a subnormal), or *)
(* m = 0, e = 0, s = 0 (zero: no operation here tells -0 from +0).         *)
(***************************************************************************)

F32Zero == [k |-> "fin", s |-> 0, m |-> 0, e |-> 0]

F32Inf(s) == [k |-> "inf", s |-> s, m |-> 0, e |-> 0]

F32NaN == [k |-> "nan", s |-> 0, m |-> 0, e |-> 0]

RECURSIVE BitLen(_)
\* the number of binary digits of n >= 0
BitLen(n) == IF n = 0 THEN 0 ELSE 1 + BitLen(n \div 2)

\* the f32 nearest to (-1)^s * (M + f) * 2^e, where 0 < M < 2^31 and f is a
\* fraction in [0, 1) that is non-zero exactly if st; with st, M has at least
\* 25 binary digits, so that bits are dropped
F32Round(s, M, e, st) ==
    LET nb    == BitLen(M)
        drop0 == nb - 24
        drop1 == (0 - 149) - e
        drop  == IF drop0 >= drop1 THEN drop0 ELSE drop1
    IN  IF drop <= 0
        THEN LET room == IF 24 - nb <= e + 149 THEN 24 - nb ELSE e + 149
             IN  IF e - room > 104 THEN F32Inf(s)
                 ELSE [k |-> "fin", s |-> s, m |-> M * (2 ^ room), e |-> e - room]
        ELSE LET q    == IF drop >= 31 THEN 0 ELSE M \div (2 ^ drop)
                 r    == IF drop >= 31 THEN M ELSE M % (2 ^ drop)
                 up   == /\ drop <= 31
                         /\ \/ r > 2 ^ (drop - 1)
                            \/ r = 2 ^ (drop - 1) /\ (st \/ q % 2 = 1)
                 q1   == IF up THEN q + 1 ELSE q
                 m1   == IF q1 = 16777216 THEN 8388608 ELSE q1
                 e1   == IF q1 = 16777216 THEN e + drop + 1 ELSE e + drop
             IN  IF q1 = 0 THEN F32Zero
                 ELSE IF e1 > 104 THEN F32Inf(s)
                 ELSE [k |-> "fin", s |-> s, m |-> m1, e |-> e1]

\* the f32 of value (-1)^s * m * 2^e, for 0 <= m < 2^31 (a literal)
F32Of(s, m, e) == IF m = 0 THEN F32Zero ELSE F32Round(s, m, e, FALSE)

\* a finite non-zero f32 with its mantissa scaled to 24 binary digits
Norm24(a) ==
    LET sh == 24 - BitLen(a.m)
    IN  [s |-> a.s, m |-> a.m * (2 ^ sh), e |-> a.e - sh]

IsZero(a) == a.k = "fin" /\ a.m = 0

\* -a
F32Neg(a) == IF a.k = "nan" \/ IsZero(a) THEN a ELSE [a EXCEPT !.s = 1 - a.s]

\* is |a| < |b|, for a and b that are not NaN
MagLess(a, b) ==
    IF a.k = "inf" THEN FALSE
    ELSE IF b.k = "inf" THEN TRUE
    ELSE a.e < b.e \/ (a.e = b.e /\ a.m < b.m)

\* a < b
F32Less(a, b) ==
    /\ a.k # "nan" /\ b.k # "nan"
    /\ IF IsZero(a) THEN ~IsZero(b) /\ b.s = 0
       ELSE IF IsZero(b) THEN a.s = 1
       ELSE IF a.s # b.s THEN a.s = 1
       ELSE IF a.s = 0 THEN MagLess(a, b) ELSE MagLess(b, a)

\* a == b
F32Eq(a, b) == a.k # "nan" /\ b.k # "nan" /\ a = b

\* a <= b
F32Leq(a, b) == F32Less(a, b) \/ F32Eq(a, b)

\* a + b for finite non-zero a, b with |a| >= |b|: b is aligned to a with
\* three more bits kept and the rest of it as the sticky bit
AddAligned(a, b) ==
    LET x  == Norm24(a)
        y  == Norm24(b)
        d  == x.e - y.e
        X  == x.m * 8
        Y  == IF d > 27 THEN 0 ELSE (y.m * 8) \div (2 ^ d)
        st == IF d > 27 THEN TRUE ELSE (y.m * 8) % (2 ^ d) # 0
    IN  IF x.s = y.s THEN F32Round(x.s, X + Y, x.e - 3, st)
        ELSE IF st THEN F32Round(x.s, X - Y - 1, x.e - 3, TRUE)
        ELSE IF X = Y THEN F32Zero
        ELSE F32Round(x.s, X - Y, x.e - 3, FALSE)

\* a + b
F32Add(a, b) ==
    IF a.k = "nan" \/ b.k = "nan" THEN F32NaN
    ELSE IF a.k = "inf" THEN (IF b.k = "inf" /\ b.s # a.s THEN F32NaN ELSE a)
    ELSE IF b.k = "inf" THEN b
    ELSE IF IsZero(a) THEN b
    ELSE IF IsZero(b) THEN a
    ELSE IF MagLess(a, b) THEN AddAligned(b, a) ELSE AddAligned(a, b)

\* a - b
F32Sub(a, b) == F32Add(a, F32Neg(b))

\* a * b: the 48-bit product of the mantissas from 12-bit halves, its low 18
\* bits kept as the sticky bit
F32Mul(a, b) ==
    IF a.k = "nan" \/ b.k = "nan" THEN F32NaN
    ELSE IF a.k = "inf" \/ b.k = "inf"
    THEN (IF IsZero(a) \/ IsZero(b) THEN F32NaN ELSE F32Inf((a.s + b.s) % 2))
    ELSE IF IsZero(a) \/ IsZero(b) THEN F32Zero
    ELSE LET x    == Norm24(a)
             y    == Norm24(b)
             a1   == x.m \div 4096
             a0   == x.m % 4096
             b1   == y.m \div 4096
             b0   == y.m % 4096
             mid  == a1 * b0 + a0 * b1
             lsum == (mid % 4096) * 4096 + a0 * b0
             L    == lsum % 16777216
             H    == a1 * b1 + (mid \div 4096) + (lsum \div 16777216)
         IN  F32Round((a.s + b.s) % 2, H * 64 + (L \div 262144),
                      x.e + y.e + 18, L % 262144 # 0)

\* a / b: 28 quotient bits of the mantissas by long division in steps of 7
\* bits, the remainder kept as the sticky bit
F32Div(a, b) ==
    IF a.k = "nan" \/ b.k = "nan" THEN F32NaN
    ELSE IF a.k = "inf"
    THEN (IF b.k = "inf" THEN F32NaN ELSE F32Inf((a.s + b.s) % 2))
    ELSE IF b.k = "inf" THEN F32Zero
    ELSE IF IsZero(b)
    THEN (IF IsZero(a) THEN F32NaN ELSE F32Inf((a.s + b.s) % 2))
    ELSE IF IsZero(a) THEN F32Zero
    ELSE LET x  == Norm24(a)
             y  == Norm24(b)
             q0 == x.m \div y.m
             r0 == x.m % y.m
             c1 == (r0 * 128) \div y.m
             r1 == (r0 * 128) % y.m
             c2 == (r1 * 128) \div y.m
             r2 == (r1 * 128) % y.m
             c3 == (r2 * 128) \div y.m
             r3 == (r2 * 128) % y.m
             c4 == (r3 * 128) \div y.m
             r4 == (r3 * 128) % y.m
         IN  F32Round((a.s + b.s) % 2,
                      q0 * 268435456 + c1 * 2097152 + c2 * 16384 + c3 * 128 + c4,
                      x.e - y.e - 28, r4 # 0)

\* static_cast<f32>(w) for an unsigned int w
U32ToF32(w) ==
    IF w[4] >= 128
    THEN F32Round(0, w[4] * 8388608 + w[3] * 32768 + w[2] * 128 + (w[1] \div 2),
                  1, w[1] % 2 = 1)
    ELSE F32Of(0, ToInt(w), 0)

\* std::numeric_limits<f32>::max() = (2^24 - 1) * 2^104
FLT_MAX == F32Of(0, 16777215, 104)

(***************************************************************************)
(* Character sets                                                          *)
(***************************************************************************)

\* charset of randString
CharsetString ==
    <<"a", "b", "c", "d", "e", "f", "g", "h", "i", "j", "k", "l", "m",
      "n", "o", "p", "q", "r", "s", "t", "u", "v", "w", "x", "y", "z",
      "A", "B", "C", "D", "E", "F", "G", "H", "I", "J", "K", "L", "M",
      "N", "O", "P", "Q", "R", "S", "T", "U", "V", "W", "X", "Y", "Z",
      "0", "1", "2", "3", "4", "5", "6", "7", "8", "9">>

\* charset of randAlphaNumericString
CharsetAlphaNumeric ==
    <<"0", "1", "2", "3", "4", "5", "6", "7", "8", "9", "A", "B", "C",
      "D", "E", "F", "G", "H", "I", "J", "K", "L", "M", "N", "O", "P",
      "Q", "R", "S", "T", "U", "V", "W", "X", "Y", "Z", "a", "b", "c",
      "d", "e", "f", "g", "h", "i", "j", "k", "l", "m", "n", "o", "p",
      "q", "r", "s", "t", "u", "v", "w", "x", "y", "z">>

(***************************************************************************)
(* Operations of Random as functions of the generator before the call.     *)
(* Each gives an outcome: the generator after the call (g), how the call   *)
(* ended (kind: "ok", "invalid_argument", or "trap" when undefined         *)
(* behaviour ends the process), what it returned, and the values its       *)
(* rand() calls returned, in order (drawn).                                *)
(***************************************************************************)

ZERO32 == Word(0, 4)

\* std::numeric_limits<u32>::max()
UINT_MAX32 == <<255, 255, 255, 255>>

Outcome(g, kind, val, ival, str, drawn) ==
    [g |-> g, kind |-> kind, val |-> val, ival |-> ival, str |-> str,
     drawn |-> drawn]

\* u32 rand()
RandCall(g) ==
    LET v == RandValue(g) IN Outcome(Rand(g), "ok", v, 0, <<>>, <<v>>)

\* seed without the write of Sequence on the explicit path
SeedGenKeepsStream(g, seedValue, rd) ==
    IF seedValue = ZERO32
    THEN LET g0 == [g EXCEPT !.State    = Widen(rd[1], 8),
                             !.Sequence = Widen(Or(Shl(rd[2], 1), Word(1, 4)), 8)]
             g1 == Rand(g0)
             g2 == [g1 EXCEPT !.State = Add(g1.State, Widen(rd[3], 8))]
         IN  Rand(g2)
    ELSE LET g0 == [g EXCEPT !.State = Widen(seedValue, 8)]
             g1 == Rand(g0)
             g2 == [g1 EXCEPT !.State = Add(g1.State, MIXER)]
         IN  Rand(g2)

\* seed without the | 1u on the entropy path
SeedGenEvenStream(g, seedValue, rd) ==
    IF seedValue = ZERO32
    THEN LET g0 == [g EXCEPT !.State    = Widen(rd[1], 8),
                             !.Sequence = Widen(Shl(rd[2], 1), 8)]
             g1 == Rand(g0)
             g2 == [g1 EXCEPT !.State = Add(g1.State, Widen(rd[3], 8))]
         IN  Rand(g2)
    ELSE LET g0 == [g EXCEPT !.State    = Widen(seedValue, 8),
                             !.Sequence = Word(1, 8)]
             g1 == Rand(g0)
             g2 == [g1 EXCEPT !.State = Add(g1.State, MIXER)]
         IN  Rand(g2)

\* seed without the closing rand() call
SeedGenOneAdvance(g, seedValue, rd) ==
    IF seedValue = ZERO32
    THEN LET g0 == [g EXCEPT !.State    = Widen(rd[1], 8),
                             !.Sequence = Widen(Or(Shl(rd[2], 1), Word(1, 4)), 8)]
             g1 == Rand(g0)
         IN  [g1 EXCEPT !.State = Add(g1.State, Widen(rd[3], 8))]
    ELSE LET g0 == [g EXCEPT !.State    = Widen(seedValue, 8),
                             !.Sequence = Word(1, 8)]
             g1 == Rand(g0)
         IN  [g1 EXCEPT !.State = Add(g1.State, MIXER)]

\* seed on the entropy path with the first and the third value of
\* std::random_device taken in each other's place
SeedGenEntropySwapped(g, seedValue, rd) ==
    IF seedValue = ZERO32
    THEN LET g0 == [g EXCEPT !.State    = Widen(rd[3], 8),
                             !.Sequence = Widen(Or(Shl(rd[2], 1), Word(1, 4)), 8)]
             g1 == Rand(g0)
             g2 == [g1 EXCEPT !.State = Add(g1.State, Widen(rd[1], 8))]
         IN  Rand(g2)
    ELSE LET g0 == [g EXCEPT !.State    = Widen(seedValue, 8),
                             !.Sequence = Word(1, 8)]
             g1 == Rand(g0)
             g2 == [g1 EXCEPT !.State = Add(g1.State, MIXER)]
         IN  Rand(g2)

\* void seed(seedValue) on generator g: rd is the sequence of values
\* std::random_device returns when asked, in call order
SeedGenKeepsState(g, seedValue, rd) ==
    IF seedValue = ZERO32
    THEN LET g0 == [g EXCEPT !.State    = Widen(rd[1], 8),
                             !.Sequence = Widen(Or(Shl(rd[2], 1), Word(1, 4)), 8)]
             g1 == Rand(g0)
             g2 == [g1 EXCEPT !.State = Add(g1.State, Widen(rd[3], 8))]
         IN  Rand(g2)
    ELSE LET g0 == [g EXCEPT !.State    = Add(g.State, Widen(seedValue, 8)),
                             !.Sequence = Word(1, 8)]
             g1 == Rand(g0)
             g2 == [g1 EXCEPT !.State = Add(g1.State, MIXER)]
         IN  Rand(g2)

SeedGen(g, seedValue, rd) ==
    IF seedValue = ZERO32
    THEN LET g0 == [g EXCEPT !.State    = Widen(rd[1], 8),
                             !.Sequence = Widen(Or(Shl(rd[2], 1), Word(1, 4)), 8)]
             g1 == Rand(g0)
             g2 == [g1 EXCEPT !.State = Add(g1.State, Widen(rd[3], 8))]
         IN  Rand(g2)
    ELSE LET g0 == [g EXCEPT !.State    = Widen(seedValue, 8),
                             !.Sequence = Word(1, 8)]
             g1 == Rand(g0)
             g2 == [g1 EXCEPT !.State = Add(g1.State, MIXER)]
         IN  Rand(g2)

SeedCall(g, seedValue, rd) ==
    Outcome(SeedGen(g, seedValue, rd), "ok", ZERO32, 0, <<>>, <<>>)

\* rand(min, max) returns min + rem, computed in unsigned int and converted
\* to int; g1 is the generator after the draw v
RangeReturn(g1, v, min, rem) ==
    Outcome(g1, "ok", v, ToInt(Add(ToU32(min), rem)), <<>>, <<v>>)

\* int rand(min, max): min + (rand() % (max - min + 1)).  The set of outcomes:
\* signed overflow of max - min + 1 and the remainder by zero are undefined
\* behaviour, which a build either wraps or traps (overflow), and either
\* traps or leaves the dividend as the remainder (division by zero).
RandRangeCall(g, min, max) ==
    LET v       == RandValue(g)
        g1      == Rand(g)
        divisor == RangeDivisor(min, max)
        trap    == Outcome(g1, "trap", v, 0, <<>>, <<v>>)
    IN  (IF RangeOverflows(min, max) THEN {trap} ELSE {})
        \cup (IF divisor = ZERO32 THEN {trap, RangeReturn(g1, v, min, v)}
              ELSE {RangeReturn(g1, v, min, Mod32(v, divisor))})

RECURSIVE StringLoopOffByOne(_, _, _, _, _, _)
\* the loop with i <= length as its condition
StringLoopOffByOne(g, charset, length, i, result, drawn) ==
    IF i > length THEN Outcome(g, "ok", ZERO32, 0, result, drawn)
    ELSE LET v == RandValue(g)
         IN  StringLoopOffByOne(Rand(g), charset, length, i + 1,
                        Append(result, charset[ModSize(v, Len(charset)) + 1]),
                        Append(drawn, v))

RECURSIVE StringLoop(_, _, _, _, _, _)
\* for (i = 0; i < length; ++i) result += charset[rand() % charset.length()]
StringLoop(g, charset, length, i, result, drawn) ==
    IF i >= length THEN Outcome(g, "ok", ZERO32, 0, result, drawn)
    ELSE LET v == RandValue(g)
         IN  StringLoop(Rand(g), charset, length, i + 1,
                        Append(result, charset[ModSize(v, Len(charset)) + 1]),
                        Append(drawn, v))

\* the body with length < 0 as its check, which no std::size_t satisfies
StringCallSignedCheck(g, charset, length) ==
    IF length < 0 THEN Outcome(g, "invalid_argument", ZERO32, 0, <<>>, <<>>)
    ELSE StringLoop(g, charset, length, 0, <<>>, <<>>)

\* the body shared by randString and randAlphaNumericString
StringCall(g, charset, length) ==
    IF length <= 0 THEN Outcome(g, "invalid_argument", ZERO32, 0, <<>>, <<>>)
    ELSE StringLoop(g, charset, length, 0, <<>>, <<>>)

\* std::string randString(length)
RandStringCall(g, length) == StringCall(g, CharsetString, length)

\* std::string randAlphaNumericString(length)
RandAlphaNumericStringCall(g, length) == StringCall(g, CharsetAlphaNumeric, length)

\* getRandomElement with the draw made before the check of elements.empty()
GetRandomElementDrawsFirst(g, elements) ==
    LET v == RandValue(g)
    IN  IF elements = <<>>
        THEN Outcome(Rand(g), "invalid_argument", ZERO32, 0, <<>>, <<>>)
        ELSE Outcome(Rand(g), "ok", v, elements[ModSize(v, Len(elements)) + 1],
                     <<>>, <<v>>)

\* getRandomElement with the index counted from the back of the vector
GetRandomElementFromBack(g, elements) ==
    IF elements = <<>> THEN Outcome(g, "invalid_argument", ZERO32, 0, <<>>, <<>>)
    ELSE LET v == RandValue(g)
         IN  Outcome(Rand(g), "ok", v,
                     elements[Len(elements) - ModSize(v, Len(elements))],
                     <<>>, <<v>>)

\* const T &getRandomElement(elements)
GetRandomElementCall(g, elements) ==
    IF elements = <<>> THEN Outcome(g, "invalid_argument", ZERO32, 0, <<>>, <<>>)
    ELSE LET v == RandValue(g)
         IN  Outcome(Rand(g), "ok", v, elements[ModSize(v, Len(elements)) + 1],
                     <<>>, <<v>>)

\* f32 randF(min, max): random_float is static_cast<f32>(rand()) divided by
\* static_cast<f32>(numeric_limits<u32>::max()), and the call returns
\* min + random_float * (max - min), each operation rounded to f32
RandFCall(g, min, max) ==
    LET v            == RandValue(g)
        random_float == F32Div(U32ToF32(v), U32ToF32(UINT_MAX32))
    IN  [g |-> Rand(g), kind |-> "ok", val |-> v, drawn |-> <<v>>,
         unit |-> random_float,
         fval |-> F32Add(min, F32Mul(random_float, F32Sub(max, min)))]

\* the container with the elements at positions i and j exchanged
Swap(c, i, j) == [c EXCEPT ![i] = c[j], ![j] = c[i]]

\* the container with the element at position j copied over position i
Overwrite(c, i, j) == [c EXCEPT ![i] = c[j]]

RECURSIVE ShuffleFromCopying(_, _)
\* the shuffle with an assignment in place of the exchange
ShuffleFromCopying(c, i) ==
    IF i <= 1 THEN {c}
    ELSE UNION {ShuffleFromCopying(Overwrite(c, i, j), i - 1) : j \in 1..i}

RECURSIVE ShuffleFrom(_, _)
\* std::shuffle on positions 1..i of c: position i is exchanged with a
\* position j <= i that the engine picks, then positions 1..i-1 are shuffled.
\* Which j a std::default_random_engine gives for a seed is left to the
\* implementation of the library, so every j is taken.
ShuffleFrom(c, i) ==
    IF i <= 1 THEN {c}
    ELSE UNION {ShuffleFrom(Swap(c, i, j), i - 1) : j \in 1..i}

\* void shuffleVector(container): rand() seeds the engine, whatever the
\* container holds; the outcomes are the orders std::shuffle may leave
ShuffleVectorCall(g, container) ==
    LET v == RandValue(g)
    IN  {[g |-> Rand(g), kind |-> "ok", val |-> v, drawn |-> <<v>>, vec |-> c] :
            c \in ShuffleFrom(container, Len(container))}

\* std::string generateID(), run alone: ctr is the function's static counter
\* before the call, timestamp what the clock returns.  The ID is the decimal
\* digits of timestamp, randomComponent and counter written one after the
\* other; it is kept as the three numbers.
GenerateIDCall(g, ctr, timestamp) ==
    LET randomComponent == RandValue(g)
    IN  [g |-> Rand(g), kind |-> "ok", val |-> randomComponent,
         drawn |-> <<randomComponent>>, counter |-> ctr + 1,
         id |-> [timestamp |-> timestamp, randomComponent |-> randomComponent,
                 counter |-> ctr + 1]]

\* bool coinFlip(): (rand() % 2) ? true : false
CoinFlipCall(g) ==
    LET v == RandValue(g)
    IN  [g |-> Rand(g), kind |-> "ok", val |-> v, drawn |-> <<v>>,
         flag |-> v[1] % 2 = 1]

\* f32 randNormal(mean, stddev): a std::mt19937 of its own, seeded from a
\* std::random_device of its own, feeds a std::normal_distribution; the
\* generator state is not read or written, and the value returned is
\* whatever the distribution gives, here one of the values given
RandNormalCall(g, mean, stddev, values) ==
    {[g |-> g, kind |-> "ok", val |-> ZERO32, drawn |-> <<>>, fval |-> f] :
        f \in values}

(***************************************************************************)
(* qm::min, qm::max, qm::clamp on f32 (include/functions.hpp)              *)
(***************************************************************************)

\* qm::max(a, b): (a < b) ? b : a
QmMax(a, b) == IF F32Less(a, b) THEN b ELSE a

\* qm::min(a, b): (b < a) ? b : a
QmMin(a, b) == IF F32Less(b, a) THEN b ELSE a

\* qm::clamp(value, minVal, maxVal)
QmClamp(value, minVal, maxVal) ==
    IF F32Less(value, minVal) THEN minVal
    ELSE IF F32Less(maxVal, value) THEN maxVal
    ELSE value

\* the f32 of value k, for an int k of at most 24 binary digits
F32Int(k) == IF k < 0 THEN F32Of(1, 0 - k, 0) ELSE F32Of(0, k, 0)

\* 0.0f, 0.5f, 1.0f
F32_0 == F32Zero

F32Half == F32Of(0, 1, 0 - 1)

F32One == F32Of(0, 1, 0)

(***************************************************************************)
(* struct Rect (include/rect.hpp)                                          *)
(***************************************************************************)

\* Rect(top, bottom, left, right)
Rect(top, bottom, left, right) ==
    [Top    |-> QmMax(top, bottom),
     Bottom |-> QmMin(top, bottom),
     Left   |-> QmMin(left, right),
     Right  |-> QmMax(left, right)]

\* Rect()
RectDefault == [Top |-> F32_0, Bottom |-> F32_0, Left |-> F32_0, Right |-> F32_0]

\* void set(top, bottom, left, right): the rectangle after the call
Set(r, top, bottom, left, right) ==
    [Top |-> top, Bottom |-> bottom, Left |-> left, Right |-> right]

\* Rect unionWith(other) const, on rectangle r
UnionWith(r, other) ==
    Rect(QmMin(r.Left, other.Left), QmMax(r.Right, other.Right),
         QmMax(r.Top, other.Top), QmMin(r.Bottom, other.Bottom))

\* bool contains(point) const, on rectangle r
Contains(r, point) ==
    /\ F32Leq(r.Left, point.x) /\ F32Leq(point.x, r.Right)
    /\ F32Leq(r.Bottom, point.y) /\ F32Leq(point.y, r.Top)

\* Vec2 clampPoint(point) const, on rectangle r
ClampPoint(r, point) ==
    [x |-> QmClamp(point.x, r.Left, r.Right),
     y |-> QmClamp(point.y, r.Bottom, r.Top)]

(***************************************************************************)
(* class vec4<int> (include/vec4.hpp).  The components tried are small:    *)
(* no sum or difference here leaves the range of int.                      *)
(***************************************************************************)

\* vec4(x, y, z, w)
Vec4(x, y, z, w) == [x |-> x, y |-> y, z |-> z, w |-> w]

\* the member: vec4 operator+(other) const, on vector v
MemberPlus(v, other) ==
    Vec4(v.x + other.x, v.y + other.y, v.z + other.z, v.w + other.w)

\* the member: vec4 operator-(other) const, on vector v
MemberMinus(v, other) ==
    Vec4(v.x - other.x, v.y - other.y, v.z - other.z, v.w - other.w)

\* the free function: vec4<T> operator+(lhs, rhs)
OperatorPlus(lhs, rhs) ==
    Vec4(lhs.x + rhs.x, lhs.y + rhs.y, lhs.z + rhs.z, lhs.w + rhs.w)

\* the free function: vec4<T> operator-(lhs, rhs)
OperatorMinus(lhs, rhs) ==
    Vec4(lhs.x - rhs.x, lhs.y - rhs.y, lhs.x - rhs.z, lhs.w - rhs.w)

\* the free function: bool operator==(lhs, rhs)
OperatorEq(lhs, rhs) ==
    lhs.x = rhs.x /\ lhs.y = rhs.y /\ lhs.z = rhs.z /\ lhs.w = rhs.w

(***************************************************************************)
(* class mat4 (include/mat4.hpp): m_data, four rows of four floats         *)
(***************************************************************************)

\* mat4(value), and mat4() with value 0.0f: m_data.fill({value, ...})
Mat4Fill(value) == [row \in 0..3 |-> [col \in 0..3 |-> value]]

\* mat4(m00, m01, ..., m33), the sixteen floats given as a sequence
Mat4(m) == [row \in 0..3 |-> [col \in 0..3 |-> m[4 * row + col + 1]]]

\* mat4::identity(), and the matrix after setAsIdentity()
Mat4Identity ==
    [row \in 0..3 |-> [col \in 0..3 |-> IF row = col THEN F32One ELSE F32_0]]

\* mat4(const mat4 &other): m_data = other.m_data
Mat4Copy(other) == [row \in 0..3 |-> [col \in 0..3 |-> other[row][col]]]

\* operator()(row, col) on matrix a
ElementAt(a, row, col) == a[row][col]

\* mat4 &operator=(const mat4 &m) on matrix a: the matrix a is after the
\* call.  The std::memcpy is commented out; the body is return *this.
Mat4Assign(a, m) == a

(***************************************************************************)
(* struct Colour (include/colours.hpp)                                     *)
(***************************************************************************)

\* Colour(red, green, blue, alpha)
Colour(red, green, blue, alpha) ==
    [r |-> QmClamp(red, F32_0, F32One),
     g |-> QmClamp(green, F32_0, F32One),
     b |-> QmClamp(blue, F32_0, F32One),
     a |-> QmClamp(alpha, F32_0, F32One)]

\* Colour operator+(other) const, on colour c
ColourPlus(c, other) ==
    Colour(QmClamp(F32Add(c.r, other.r), F32_0, F32One),
           QmClamp(F32Add(c.g, other.g), F32_0, F32One),
           QmClamp(F32Add(c.b, other.b), F32_0, F32One),
           QmClamp(F32Add(c.a, other.a), F32_0, F32One))

\* Colour operator-(other) const
ColourMinus(c, other) ==
    Colour(QmClamp(F32Sub(c.r, other.r), F32_0, F32One),
           QmClamp(F32Sub(c.g, other.g), F32_0, F32One),
           QmClamp(F32Sub(c.b, other.b), F32_0, F32One),
           QmClamp(F32Sub(c.a, other.a), F32_0, F32One))

\* Colour operator*(scalar) const
ColourTimes(c, scalar) ==
    Colour(QmClamp(F32Mul(c.r, scalar), F32_0, F32One),
           QmClamp(F32Mul(c.g, scalar), F32_0, F32One),
           QmClamp(F32Mul(c.b, scalar), F32_0, F32One),
           QmClamp(F32Mul(c.a, scalar), F32_0, F32One))

\* Colour lerp(endColor, t) const
Lerp(c, endColor, t0) ==
    LET t           == QmClamp(t0, F32_0, F32One)
        complementT == F32Sub(F32One, t)
    IN  Colour(F32Add(F32Mul(c.r, complementT), F32Mul(endColor.r, t)),
               F32Add(F32Mul(c.g, complementT), F32Mul(endColor.g, t)),
               F32Add(F32Mul(c.b, complementT), F32Mul(endColor.b, t)),
               F32Add(F32Mul(c.a, complementT), F32Mul(endColor.a, t)))

\* Colour blend(srcColor) const
Blend(c, srcColor) ==
    LET srcAlpha  == srcColor.a
        destAlpha == F32Sub(F32One, srcAlpha)
    IN  Colour(F32Add(F32Mul(srcColor.r, srcAlpha), F32Mul(c.r, destAlpha)),
               F32Add(F32Mul(srcColor.g, srcAlpha), F32Mul(c.g, destAlpha)),
               F32Add(F32Mul(srcColor.b, srcAlpha), F32Mul(c.b, destAlpha)),
               F32Add(srcAlpha, F32Mul(c.a, destAlpha)))

\* void invert(): the colour after the call
Invert(c) ==
    [c EXCEPT !.r = F32Sub(F32One, c.r), !.g = F32Sub(F32One, c.g),
              !.b = F32Sub(F32One, c.b)]

\* void adjustBrightness(brightnessFactor): the colour after the call
AdjustBrightness(c, brightnessFactor) ==
    [c EXCEPT !.r = F32Mul(c.r, brightnessFactor),
              !.g = F32Mul(c.g, brightnessFactor),
              !.b = F32Mul(c.b, brightnessFactor)]

\* void adjustContrast(contrastFactor): the colour after the call
AdjustContrast(c, contrastFactor) ==
    LET midpoint == F32Half
    IN  [c EXCEPT
            !.r = F32Add(midpoint, F32Mul(F32Sub(c.r, midpoint), contrastFactor)),
            !.g = F32Add(midpoint, F32Mul(F32Sub(c.g, midpoint), contrastFactor)),
            !.b = F32Add(midpoint, F32Mul(F32Sub(c.b, midpoint), contrastFactor))]

(***************************************************************************)
(* Easing functions (include/ease.hpp), T = f32.  Where the code computes  *)
(* in double (pow, the double literals) and converts on return, the f32    *)
(* operations give the same value for every t whose intermediate results   *)
(* are f32 values, as those of the t tried are.                            *)
(***************************************************************************)

\* pow(x, n) for an int n >= 1
RECURSIVE Pow(_, _)
Pow(x, n) == IF n = 1 THEN x ELSE F32Mul(Pow(x, n - 1), x)

\* -2 * t + 2
TwoMinusTwice(t) == F32Add(F32Mul(F32Int(-2), t), F32Int(2))

\* 1 - pow(-2 * t + 2, n) / 2
InOutTail(t, n) == F32Sub(F32One, F32Div(Pow(TwoMinusTwice(t), n), F32Int(2)))

linear(t) == t

easeInQuad(t) == F32Mul(t, t)

easeOutQuad(t) == F32Sub(F32One, F32Mul(F32Sub(F32One, t), F32Sub(F32One, t)))

easeInOutQuad(t) ==
    IF F32Less(t, F32Half) THEN F32Mul(F32Mul(F32Int(2), t), t)
    ELSE InOutTail(t, 2)

easeInCubic(t) == F32Mul(F32Mul(t, t), t)

easeOutCubic(t) == F32Sub(F32One, Pow(F32Sub(F32One, t), 3))

easeInOutCubic(t) ==
    IF F32Less(t, F32Half) THEN F32Mul(F32Mul(F32Mul(F32Int(4), t), t), t)
    ELSE InOutTail(t, 3)

easeInQuartic(t) == F32Mul(F32Mul(F32Mul(t, t), t), t)

easeOutQuartic(t) == F32Sub(F32One, Pow(F32Sub(F32One, t), 4))

easeInOutQuartic(t) ==
    IF F32Less(t, F32Half)
    THEN F32Mul(F32Mul(F32Mul(F32Mul(F32Int(8), t), t), t), t)
    ELSE InOutTail(t, 4)

easeInQuintic(t) == F32Mul(F32Mul(F32Mul(F32Mul(t, t), t), t), t)

easeOutQuintic(t) == F32Sub(F32One, Pow(F32Sub(F32One, t), 5))

easeInOutQuintic(t) ==
    IF F32Less(t, F32Half)
    THEN F32Mul(F32Mul(F32Mul(F32Mul(F32Mul(F32Int(16), t), t), t), t), t)
    ELSE InOutTail(t, 5)

\* elastic(t), for the two t where no sin and no pow(2, ...) is computed
elastic(t) ==
    CASE F32Eq(t, F32_0) -> F32_0
      [] F32Eq(t, F32One) -> F32One

\* bounce(t), for t < 1 / 2.75 (that is 11 * t < 4): 7.5625 * t * t, with
\* 7.5625 = 121 / 16.  The other branches read t and assign it in one
\* unsequenced expression.
bounce(t) ==
    CASE F32Less(F32Mul(F32Int(11), t), F32Int(4)) ->
             F32Mul(F32Mul(F32Of(0, 121, 0 - 4), t), t)

\* enum class EaseType, and one value that is no enumerator
EaseType ==
    { "Linear", "InQuad", "OutQuad", "InOutQuad", "InCubic", "OutCubic",
      "InOutCubic", "InQuartic", "OutQuartic", "InOutQuartic", "InQuintic",
      "OutQuintic", "InOutQuintic", "Elastic", "Bounce", "Unknown" }

\* the easing function of a name, applied to t
Ease(name, t) ==
    CASE name = "linear"           -> linear(t)
      [] name = "easeInQuad"       -> easeInQuad(t)
      [] name = "easeOutQuad"      -> easeOutQuad(t)
      [] name = "easeInOutQuad"    -> easeInOutQuad(t)
      [] name = "easeInCubic"      -> easeInCubic(t)
      [] name = "easeOutCubic"     -> easeOutCubic(t)
      [] name = "easeInOutCubic"   -> easeInOutCubic(t)
      [] name = "easeInQuartic"    -> easeInQuartic(t)
      [] name = "easeOutQuartic"   -> easeOutQuartic(t)
      [] name = "easeInOutQuartic" -> easeInOutQuartic(t)
      [] name = "easeInQuintic"    -> easeInQuintic(t)
      [] name = "easeOutQuintic"   -> easeOutQuintic(t)
      [] name = "easeInOutQuintic" -> easeInOutQuintic(t)
      [] name = "elastic"          -> elastic(t)
      [] name = "bounce"           -> bounce(t)

\* getEaseFunction(easeType): the function the returned lambda calls
\* (t itself, for the default lambda, is linear(t))
getEaseFunction(easeType) ==
    CASE easeType = "InQuad"       -> "easeInQuad"
      [] easeType = "OutQuad"      -> "easeOutQuad"
      [] easeType = "InOutQuad"    -> "easeInOutQuad"
      [] easeType = "InCubic"      -> "easeInCubic"
      [] easeType = "OutCubic"     -> "easeOutCubic"
      [] easeType = "InOutCubic"   -> "easeInOutCubic"
      [] easeType = "InQuartic"    -> "easeInQuartic"
      [] easeType = "OutQuartic"   -> "easeOutCubic"
      [] easeType = "InOutQuartic" -> "easeInOutQuartic"
      [] easeType = "InQuintic"    -> "easeInQuintic"
      [] easeType = "OutQuintic"   -> "easeOutQuintic"
      [] easeType = "InOutQuintic" -> "easeInOutQuintic"
      [] easeType = "Elastic"      -> "elastic"
      [] easeType = "Bounce"       -> "bounce"
      [] OTHER                     -> "linear"

\* the easing function that has the name of an EaseType value
NamedEase(easeType) ==
    CASE easeType = "InQuad"       -> "easeInQuad"
      [] easeType = "OutQuad"      -> "easeOutQuad"
      [] easeType = "InOutQuad"    -> "easeInOutQuad"
      [] easeType = "InCubic"      -> "easeInCubic"
      [] easeType = "OutCubic"     -> "easeOutCubic"
      [] easeType = "InOutCubic"   -> "easeInOutCubic"
      [] easeType = "InQuartic"    -> "easeInQuartic"
      [] easeType = "OutQuartic"   -> "easeOutQuartic"
      [] easeType = "InOutQuartic" -> "easeInOutQuartic"
      [] easeType = "InQuintic"    -> "easeInQuintic"
      [] easeType = "OutQuintic"   -> "easeOutQuintic"
      [] easeType = "InOutQuintic" -> "easeInOutQuintic"
      [] easeType = "Elastic"      -> "elastic"
      [] easeType = "Bounce"       -> "bounce"
      [] easeType \in {"Linear", "Unknown"} -> "linear"

(***************************************************************************)
(* The state machine: Random instances and the calls made on them          *)
(***************************************************************************)

VARIABLES
    gen,     \* gen[i]: m_generatorState of instance i
    seeded,  \* seeded[i]: the seedValue of the last seed call on instance i
    out,     \* out[i]: the values rand() returned on i since that seed call
    last,    \* the last call made: operation, arguments, outcome
    counter, \* the static counter of generateID, one for all instances
    ids,     \* the generateID calls that have returned: instance and counter
    pc,      \* pc[t]: the statement thread t executes next
    reg,     \* reg[t]: the locals of the call thread t is in
    mutex,   \* m_mutex of instance 1: the thread that holds it, or 0
    log,     \* the calls that read or wrote State of instance 1, in order
    calls,   \* the number of calls the threads have made
    rect,    \* a Rect, and the operand and result of its last operation
    colour,  \* a Colour and the operations applied to it
    ease,    \* an easing function got from getEaseFunction, and a call of it
    orbit,   \* the states successive rand() calls have led instance 1 through
    vec,     \* two vec4<int> and the result of the last operation on them
    mat      \* two mat4 and the last operation on them

vars == <<gen, seeded, out, last, counter, ids, pc, reg, mutex, log, calls,
          rect, colour, ease, orbit, vec, mat>>

\* the state of generateID
idVars == <<counter, ids>>

\* the state of the threads
threadVars == <<pc, reg, mutex, log, calls>>

\* the state of the Rect, Colour, easing, vec4 and mat4 computations, and
\* the orbit followed
valueVars == <<rect, colour, ease, orbit, vec, mat>>

\* the same, but for the variable of each computation
butRect == <<colour, ease, orbit, vec, mat>>

butColour == <<rect, ease, orbit, vec, mat>>

butEase == <<rect, colour, orbit, vec, mat>>

butOrbit == <<rect, colour, ease, vec, mat>>

butVec == <<rect, colour, ease, orbit, mat>>

butMat == <<rect, colour, ease, orbit, vec>>

\* the Random instances of the program
Inst == {1, 2}

\* most draws followed on one instance after a seed call
MaxDraws == 3

\* longest string asked for
MaxLen == 2

\* the explicit seedValue arguments tried (0 takes the entropy path)
SeedValues == {ZERO32, Word(42, 4), UINT_MAX32}

\* the values three successive std::random_device calls may return
EntropyDraws ==
    { <<Word(0, 4), Word(54, 4), Word(42, 4)>>,
      <<UINT_MAX32, <<1, 0, 0, 128>>, UINT_MAX32>> }

\* std::random_device is not asked on the explicit path
NoEntropy == <<ZERO32, ZERO32, ZERO32>>

\* the (min, max) arguments tried
RangeArgs ==
    { <<-3, -3>>, <<1, 6>>, <<-5, 5>>, <<INT_MIN, -1>>, <<0, INT_MAX>>,
      <<INT_MIN, INT_MAX>>, <<1, 0>>, <<5, 2>> }

\* the vectors tried
Vectors == { <<>>, <<7>>, <<3, 9, 4>> }

\* the containers shuffled: the vectors and one with an element twice
Containers == Vectors \cup { <<5, 5>> }

\* the (min, max) arguments of randF tried
FloatArgs ==
    { <<F32_0, F32One>>, <<F32Int(-1), F32One>>, <<F32Int(2), F32Int(2)>>,
      <<F32_0, F32Int(100)>>, <<F32Neg(FLT_MAX), FLT_MAX>>,
      <<F32Int(-1), F32Of(0, 3, 0 - 25)>>, <<F32One, F32_0>> }

\* seedValue 2139375221: the first rand() after seed() returns 0xFFFFFFFF
SeedAllOnes == Word(2139375221, 4)

\* seedValue 2641636821: the first rand() after seed() returns 0
SeedNought == <<213, 45, 116, 157>>

\* the seedValue arguments tried where randF is called
FloatSeeds == {Word(42, 4), SeedAllOnes, SeedNought}

\* most generateID calls followed
MaxIds == 2

\* what the clock may return to generateID
Timestamps == {1000, 1001}

Call(op, i, r, seedValue, min, max, length, elements) ==
    [op |-> op, inst |-> i, pre |-> gen[i], kind |-> r.kind, val |-> r.val,
     ival |-> r.ival, str |-> r.str, seedValue |-> seedValue,
     min |-> min, max |-> max, length |-> length, elements |-> elements,
     rd |-> NoEntropy]

\* a trap ends the process: no call is made after it
Alive == last.kind # "trap"

\* instance i may still draw n values
CanDraw(i, n) == Len(out[i]) + n <= MaxDraws

\* the generator of instance i takes the outcome r of a call that is no seed
Drawn(i, r) ==
    /\ gen' = [gen EXCEPT ![i] = r.g]
    /\ out' = [out EXCEPT ![i] = @ \o r.drawn]
    /\ UNCHANGED seeded

\* m_generatorState has no initialiser: the constructor's seed() call is
\* what first writes it
Unset == [State |-> Word(0, 8), Sequence |-> Word(0, 8)]

\* the threads that call instance 1
Threads == {1, 2}

\* the locals of a thread that is in no call
NoReg ==
    [op |-> "none", call |-> 0, ret |-> "idle", old_state |-> Word(0, 8),
     i |-> 0, length |-> 0, sum |-> Word(0, 8), c |-> 0,
     seedValue |-> ZERO32, rd |-> NoEntropy]

\* generateID has not been called: its static counter is zero-initialised
NoIds == counter = 0 /\ ids = <<>>

\* no thread has made a call
NoThreads ==
    /\ pc = [t \in Threads |-> "idle"]
    /\ reg = [t \in Threads |-> NoReg]
    /\ mutex = 0
    /\ log = <<>>
    /\ calls = 0

\* vec4<int>()
Vec4Zero == Vec4(0, 0, 0, 0)

\* mat4()
Mat4Zero == Mat4Fill(F32_0)

\* Vec2(0.0f, 0.0f)
Origin == [x |-> F32_0, y |-> F32_0]

\* no Rect, Colour or easing computation is made
NoValues ==
    /\ rect = [a |-> RectDefault, b |-> RectDefault, u |-> RectDefault,
               p |-> Origin, q |-> Origin, op |-> "none"]
    /\ colour = [c |-> Colour(F32_0, F32_0, F32_0, F32_0), n |-> 0,
                 op |-> "none"]
    /\ ease = [easeType |-> "Linear", fn |-> "linear", t |-> F32_0,
               result |-> F32_0, op |-> "none"]
    /\ orbit = <<>>
    /\ vec = [a |-> Vec4Zero, b |-> Vec4Zero, r |-> Vec4Zero, op |-> "none"]
    /\ mat = [a |-> Mat4Zero, b |-> Mat4Zero, a0 |-> Mat4Zero,
              b0 |-> Mat4Zero, op |-> "none"]

\* the state after construction: Random() { seed(); } on every instance
Init ==
    /\ gen \in [Inst -> {SeedGen(Unset, ZERO32, rd) : rd \in EntropyDraws}]
    /\ seeded = [i \in Inst |-> ZERO32]
    /\ out = [i \in Inst |-> <<>>]
    /\ last = [op |-> "Random", inst |-> 1, pre |-> gen[1], kind |-> "ok",
               val |-> ZERO32, ival |-> 0, str |-> <<>>, seedValue |-> ZERO32,
               min |-> 0, max |-> 0, length |-> 0, elements |-> <<>>]
    /\ NoIds
    /\ NoThreads
    /\ NoValues

\* seed(seedValue) on instance i, for a seedValue of the set given
DoSeedOf(i, values) ==
    /\ Alive
    /\ \E seedValue \in values :
       \E rd \in (IF seedValue = ZERO32 THEN EntropyDraws ELSE {NoEntropy}) :
         LET r == SeedCall(gen[i], seedValue, rd)
         IN  /\ gen' = [gen EXCEPT ![i] = r.g]
             /\ seeded' = [seeded EXCEPT ![i] = seedValue]
             /\ out' = [out EXCEPT ![i] = <<>>]
             /\ last' = [Call("seed", i, r, seedValue, 0, 0, 0, <<>>)
                             EXCEPT !.rd = rd]

DoSeed(i) == DoSeedOf(i, SeedValues)

DoRand(i) ==
    /\ Alive
    /\ CanDraw(i, 1)
    /\ LET r == RandCall(gen[i])
       IN  /\ Drawn(i, r)
           /\ last' = Call("rand", i, r, ZERO32, 0, 0, 0, <<>>)

DoRandRange(i) ==
    /\ Alive
    /\ CanDraw(i, 1)
    /\ \E a \in RangeArgs :
         \E r \in RandRangeCall(gen[i], a[1], a[2]) :
            /\ Drawn(i, r)
            /\ last' = Call("randRange", i, r, ZERO32, a[1], a[2], 0, <<>>)

DoRandString(i) ==
    /\ Alive
    /\ \E length \in 0..MaxLen :
         /\ CanDraw(i, length)
         /\ LET r == RandStringCall(gen[i], length)
            IN  /\ Drawn(i, r)
                /\ last' = Call("randString", i, r, ZERO32, 0, 0, length, <<>>)

DoRandAlphaNumericString(i) ==
    /\ Alive
    /\ \E length \in 0..MaxLen :
         /\ CanDraw(i, length)
         /\ LET r == RandAlphaNumericStringCall(gen[i], length)
            IN  /\ Drawn(i, r)
                /\ last' = Call("randAlphaNumericString", i, r, ZERO32, 0, 0,
                                length, <<>>)

DoGetRandomElement(i) ==
    /\ Alive
    /\ \E elements \in Vectors :
         /\ CanDraw(i, IF elements = <<>> THEN 0 ELSE 1)
         /\ LET r == GetRandomElementCall(gen[i], elements)
            IN  /\ Drawn(i, r)
                /\ last' = Call("getRandomElement", i, r, ZERO32, 0, 0, 0,
                                elements)

DoShuffleVector(i) ==
    /\ Alive
    /\ CanDraw(i, 1)
    /\ \E container \in Containers :
         \E r \in ShuffleVectorCall(gen[i], container) :
            /\ Drawn(i, r)
            /\ last' = [op |-> "shuffleVector", inst |-> i, pre |-> gen[i],
                        kind |-> r.kind, val |-> r.val,
                        elements |-> container, vec |-> r.vec]

DoRandF(i) ==
    /\ Alive
    /\ CanDraw(i, 1)
    /\ \E a \in FloatArgs :
         LET r == RandFCall(gen[i], a[1], a[2])
         IN  /\ Drawn(i, r)
             /\ last' = [op |-> "randF", inst |-> i, pre |-> gen[i],
                         kind |-> r.kind, val |-> r.val, min |-> a[1],
                         max |-> a[2], unit |-> r.unit, fval |-> r.fval]

DoSeedFloat(i) == DoSeedOf(i, FloatSeeds)

DoGenerateID(i) ==
    /\ Alive
    /\ CanDraw(i, 1)
    /\ Len(ids) < MaxIds
    /\ \E timestamp \in Timestamps :
         LET r == GenerateIDCall(gen[i], counter, timestamp)
         IN  /\ Drawn(i, r)
             /\ counter' = r.counter
             /\ ids' = Append(ids, [inst |-> i, counter |-> r.id.counter])
             /\ last' = [op |-> "generateID", inst |-> i, pre |-> gen[i],
                         kind |-> r.kind, val |-> r.val, id |-> r.id]

DoCoinFlip(i) ==
    /\ Alive
    /\ CanDraw(i, 1)
    /\ LET r == CoinFlipCall(gen[i])
       IN  /\ Drawn(i, r)
           /\ last' = [op |-> "coinFlip", inst |-> i, pre |-> gen[i],
                       kind |-> r.kind, val |-> r.val, flag |-> r.flag]

\* the mean and stddev arguments tried, and the values the distribution is
\* taken to give
NormalArgs == {<<F32_0, F32One>>, <<F32One, F32Half>>}

NormalDraws == {F32_0, F32One, F32Int(0 - 1)}

\* randNormal draws nothing from the generator; a call that leaves every
\* variable as it is (the same call made again) is a stuttering step
DoRandNormal(i) ==
    /\ Alive
    /\ \E a \in NormalArgs :
         \E r \in RandNormalCall(gen[i], a[1], a[2], NormalDraws) :
            /\ Drawn(i, r)
            /\ last' = [op |-> "randNormal", inst |-> i, pre |-> gen[i],
                        kind |-> r.kind, mean |-> a[1], stddev |-> a[2],
                        fval |-> r.fval]

\* calls of the operations that use the generator alone, made on one instance
Next ==
    /\ \/ DoSeed(1)
       \/ DoRand(1)
       \/ DoRandRange(1)
       \/ DoRandString(1)
       \/ DoRandAlphaNumericString(1)
       \/ DoGetRandomElement(1)
       \/ DoShuffleVector(1)
    /\ UNCHANGED <<idVars, threadVars, valueVars>>

Spec == Init /\ [][Next]_vars

\* seed and rand calls made on every instance, in any order
NextPair ==
    /\ \E i \in Inst : DoSeed(i) \/ DoRand(i)
    /\ UNCHANGED <<idVars, threadVars, valueVars>>

SpecPair == Init /\ [][NextPair]_vars

\* seed, rand and randF calls made on one instance
NextFloat ==
    /\ DoSeedFloat(1) \/ DoRand(1) \/ DoRandF(1)
    /\ UNCHANGED <<idVars, threadVars, valueVars>>

SpecFloat == Init /\ [][NextFloat]_vars

\* the seedValue arguments tried where every operation is called
FrameSeeds == {Word(42, 4), ZERO32}

\* calls of every operation of the class, made on one instance
NextAll ==
    \/ /\ \/ DoSeedOf(1, FrameSeeds)
          \/ DoRand(1)
          \/ DoRandRange(1)
          \/ DoRandF(1)
          \/ DoRandString(1)
          \/ DoRandAlphaNumericString(1)
          \/ DoRandNormal(1)
          \/ DoCoinFlip(1)
          \/ DoGetRandomElement(1)
          \/ DoShuffleVector(1)
       /\ UNCHANGED <<idVars, threadVars, valueVars>>
    \/ DoGenerateID(1) /\ UNCHANGED <<threadVars, valueVars>>

SpecAll == Init /\ [][NextAll]_vars

\* generateID and rand calls made on every instance, in any order
NextIds ==
    /\ \E i \in Inst :
          \/ DoGenerateID(i)
          \/ DoRand(i) /\ UNCHANGED idVars
    /\ UNCHANGED <<threadVars, valueVars>>

SpecIds == Init /\ [][NextIds]_vars

(***************************************************************************)
(* Threads: calls made on instance 1 by several threads at once.  A step   *)
(* is one statement that reads or writes what the threads share: State and *)
(* Sequence of the instance, its mutex, the static counter of generateID.  *)
(* Statements that touch none of it are part of the step before them.      *)
(* What a call returns is given by the operators above and is not kept.    *)
(***************************************************************************)

\* most calls the threads make
MaxCalls == 2

\* the seed() arguments the threads pass, with what std::random_device gives
ThreadSeeds ==
    { <<Word(42, 4), NoEntropy>>,
      <<ZERO32, <<Word(0, 4), Word(54, 4), Word(42, 4)>> >> }

\* the log after call c has read or written State or Sequence: successive
\* accesses of one call are one entry
Touched(c) == IF log # <<>> /\ log[Len(log)] = c THEN log ELSE Append(log, c)

\* thread t enters a call of operation op
Enter(t, op, first, r) ==
    /\ pc[t] = "idle"
    /\ calls < MaxCalls
    /\ calls' = calls + 1
    /\ pc' = [pc EXCEPT ![t] = first]
    /\ reg' = [reg EXCEPT ![t] = [r EXCEPT !.op = op, !.call = calls + 1]]

\* thread t leaves statement "from" for statement "to" with locals r; a
\* thread that returns to its caller keeps no locals
Goto(t, from, to, r) ==
    /\ pc[t] = from
    /\ pc' = [pc EXCEPT ![t] = to]
    /\ reg' = [reg EXCEPT ![t] = IF to = "idle" THEN NoReg ELSE r]

\* an operation that acquires the mutex on entry and holds it while it
\* calls rand()
CallDrawOnceLocked(t) ==
    /\ mutex = 0
    /\ Enter(t, "rand", "rand_lock", NoReg)
    /\ mutex' = t
    /\ UNCHANGED <<gen, counter, ids, log>>

\* rand(), rand(min, max) with min <= max, randF, coinFlip, shuffleVector and
\* getRandomElement on a vector that is not empty: one call of rand() and
\* nothing else that is shared
CallDrawOnce(t) ==
    /\ Enter(t, "rand", "rand_lock", NoReg)
    /\ UNCHANGED <<gen, counter, ids, mutex, log>>

\* randString(length), randAlphaNumericString(length): length <= 0 throws
\* invalid_argument before any call of rand(), as getRandomElement does on
\* an empty vector
CallString(t) ==
    /\ \E length \in 0..MaxLen :
         IF length <= 0
         THEN /\ pc[t] = "idle"
              /\ calls < MaxCalls
              /\ calls' = calls + 1
              /\ UNCHANGED <<pc, reg>>
         ELSE Enter(t, "randString", "rand_lock",
                    [NoReg EXCEPT !.ret = "str_next", !.length = length])
    /\ UNCHANGED <<gen, counter, ids, mutex, log>>

\* seed(seedValue)
CallSeed(t) ==
    /\ \E a \in ThreadSeeds :
         Enter(t, "seed", "seed_state",
               [NoReg EXCEPT !.seedValue = a[1], !.rd = a[2]])
    /\ UNCHANGED <<gen, counter, ids, mutex, log>>

\* generateID(): the clock is read, then rand() is called
CallGenerateID(t) ==
    /\ Len(ids) < MaxIds
    /\ Enter(t, "generateID", "rand_lock", [NoReg EXCEPT !.ret = "id_read"])
    /\ UNCHANGED <<gen, counter, ids, mutex, log>>

\* a lock that is taken without waiting for its holder to release it
LockNoWait(t) ==
    /\ mutex' = t
    /\ Goto(t, "rand_lock", "rand_read", reg[t])
    /\ UNCHANGED <<gen, counter, ids, log, calls>>

\* rand(): std::lock_guard<std::mutex> lock(m_mutex)
Lock(t) ==
    /\ mutex = 0
    /\ mutex' = t
    /\ Goto(t, "rand_lock", "rand_read", reg[t])
    /\ UNCHANGED <<gen, counter, ids, log, calls>>

\* rand(): old_state = m_generatorState.State
RandRead(t) ==
    /\ Goto(t, "rand_read", "rand_write",
            [reg[t] EXCEPT !.old_state = gen[1].State])
    /\ log' = Touched(reg[t].call)
    /\ UNCHANGED <<gen, counter, ids, mutex, calls>>

\* rand(): State = old_state * 6364136223846793005ULL + Sequence, and the
\* return, at which the guard releases the mutex thread t holds
RandWrite(t) ==
    /\ Goto(t, "rand_write", reg[t].ret, reg[t])
    /\ gen' = [gen EXCEPT ![1].State =
                   RandState([State |-> reg[t].old_state,
                              Sequence |-> gen[1].Sequence])]
    /\ mutex' = 0
    /\ log' = Touched(reg[t].call)
    /\ UNCHANGED <<counter, ids, calls>>

\* randString: result += charset[...] and ++i, then the loop's condition
StrNext(t) ==
    /\ LET i == reg[t].i + 1
       IN  Goto(t, "str_next",
                IF i < reg[t].length THEN "rand_lock" ELSE "idle",
                [reg[t] EXCEPT !.i = i])
    /\ UNCHANGED <<gen, counter, ids, mutex, log, calls>>

\* seed(): State = rd(), or State = seedValue
SeedState(t) ==
    /\ Goto(t, "seed_state", "seed_seq", reg[t])
    /\ gen' = [gen EXCEPT ![1].State =
                   Widen(IF reg[t].seedValue = ZERO32 THEN reg[t].rd[1]
                         ELSE reg[t].seedValue, 8)]
    /\ log' = Touched(reg[t].call)
    /\ UNCHANGED <<counter, ids, mutex, calls>>

\* seed(): Sequence = (rd() << 1u) | 1u, or Sequence = 1u; then rand()
SeedSequence(t) ==
    /\ Goto(t, "seed_seq", "rand_lock", [reg[t] EXCEPT !.ret = "seed_sum"])
    /\ gen' = [gen EXCEPT ![1].Sequence =
                   IF reg[t].seedValue = ZERO32
                   THEN Widen(Or(Shl(reg[t].rd[2], 1), Word(1, 4)), 8)
                   ELSE Word(1, 8)]
    /\ log' = Touched(reg[t].call)
    /\ UNCHANGED <<counter, ids, mutex, calls>>

\* seed(): State += ..., the read of State
SeedSum(t) ==
    /\ Goto(t, "seed_sum", "seed_store", [reg[t] EXCEPT !.sum = gen[1].State])
    /\ log' = Touched(reg[t].call)
    /\ UNCHANGED <<gen, counter, ids, mutex, calls>>

\* seed(): State += rd(), or State += 0x853c49e6748fea9bULL, the write of
\* State; then the closing rand(), after which seed returns
SeedStore(t) ==
    /\ Goto(t, "seed_store", "rand_lock", [reg[t] EXCEPT !.ret = "idle"])
    /\ gen' = [gen EXCEPT ![1].State =
                   Add(reg[t].sum,
                       IF reg[t].seedValue = ZERO32 THEN Widen(reg[t].rd[3], 8)
                       ELSE MIXER)]
    /\ log' = Touched(reg[t].call)
    /\ UNCHANGED <<counter, ids, mutex, calls>>

\* generateID(): counter++, the read of counter
IdRead(t) ==
    /\ Goto(t, "id_read", "id_write", [reg[t] EXCEPT !.c = counter])
    /\ UNCHANGED <<gen, counter, ids, mutex, log, calls>>

\* generateID(): counter++, the write of counter
IdWrite(t) ==
    /\ Goto(t, "id_write", "id_format", reg[t])
    /\ counter' = reg[t].c + 1
    /\ UNCHANGED <<gen, ids, mutex, log, calls>>

\* generateID(): std::format(..., counter) and the return.  counter is read
\* with no synchronisation: the ID holds the value this thread wrote, kept in
\* a register, or the value then in memory.
IdFormat(t) ==
    /\ Goto(t, "id_format", "idle", reg[t])
    /\ \E c \in {reg[t].c + 1, counter} :
         ids' = Append(ids, [inst |-> 1, counter |-> c])
    /\ UNCHANGED <<gen, counter, mutex, log, calls>>

\* thread t makes a call
MakeCall(t) == CallDrawOnce(t) \/ CallString(t) \/ CallSeed(t) \/ CallGenerateID(t)

\* a step of thread t inside a call, other than the wait for the mutex
Proceed(t) ==
    \/ RandRead(t)
    \/ RandWrite(t)
    \/ StrNext(t)
    \/ SeedState(t)
    \/ SeedSequence(t)
    \/ SeedSum(t)
    \/ SeedStore(t)
    \/ IdRead(t)
    \/ IdWrite(t)
    \/ IdFormat(t)

NextThreads ==
    /\ \E t \in Threads : MakeCall(t) \/ Lock(t) \/ Proceed(t)
    /\ UNCHANGED <<seeded, out, last, valueVars>>

\* instance 1 after construction, and threads that have made no call
InitThreads ==
    /\ gen = [i \in Inst |->
                 SeedGen(Unset, ZERO32, <<Word(0, 4), Word(54, 4), Word(42, 4)>>)]
    /\ seeded = [i \in Inst |-> ZERO32]
    /\ out = [i \in Inst |-> <<>>]
    /\ last = [op |-> "Random", inst |-> 1, pre |-> gen[1], kind |-> "ok"]
    /\ NoIds
    /\ NoThreads
    /\ NoValues

SpecThreads == InitThreads /\ [][NextThreads]_vars

\* the statements a thread can be at
Statements ==
    {"idle", "rand_lock", "rand_read", "rand_write", "str_next", "seed_state",
     "seed_seq", "seed_sum", "seed_store", "id_read", "id_write", "id_format"}

\* thread t, inside a call and not waiting for the mutex, goes on to another
\* statement: the steps of Proceed(t), told by what they do to pc
Advance(t) ==
    /\ pc[t] \notin {"idle", "rand_lock"}
    /\ \E to \in Statements \ {pc[t]} : pc' = [pc EXCEPT ![t] = to]

\* fair scheduling: a thread inside a call executes its next statement, and
\* a thread that waits for the mutex gets it if it is free again and again
SpecThreadsFair ==
    /\ SpecThreads
    /\ \A t \in Threads :
          /\ WF_pc(Advance(t))
          /\ SF_vars(Lock(t) /\ UNCHANGED <<seeded, out, last, valueVars>>)

(***************************************************************************)
(* Threads that call rand() only, on instance 1, with the values returned  *)
(***************************************************************************)

\* most rand() calls the threads make
MaxRands == 4

\* thread t calls rand()
CallRand(t) ==
    /\ pc[t] = "idle"
    /\ calls < MaxRands
    /\ calls' = calls + 1
    /\ pc' = [pc EXCEPT ![t] = "rand_lock"]
    /\ reg' = [reg EXCEPT ![t] = [NoReg EXCEPT !.op = "rand",
                                               !.call = calls + 1]]
    /\ UNCHANGED <<gen, counter, ids, mutex, log>>

\* rand() returns to the caller of thread t the output computed from the
\* state it read
RandReturn(t) ==
    /\ RandWrite(t)
    /\ out' = [out EXCEPT ![1] = Append(@, Output(reg[t].old_state))]

NextRand ==
    /\ \E t \in Threads :
          \/ CallRand(t) /\ UNCHANGED out
          \/ Lock(t) /\ UNCHANGED out
          \/ RandRead(t) /\ UNCHANGED out
          \/ RandReturn(t)
    /\ UNCHANGED <<seeded, last, valueVars>>

SpecRand == Init /\ [][NextRand]_vars

(***************************************************************************)
(* rand() on chosen states.  With an odd stream the recurrence has period  *)
(* 2^64, so a generator that draws long enough comes to every state.       *)
(***************************************************************************)

\* the top bytes of the states tried: the rotation amount is the byte's five
\* top bits
TopBytes == {0, 4, 7, 8, 15, 16, 128, 248, 255}

\* the states tried: a top byte over seven bytes alike
OutputStates ==
    {<<b, b, b, b, b, b, b, top>> : b \in {0, 165, 255}, top \in TopBytes}

\* every instance has been seeded with 42 and has come to one of the states
\* tried; out starts anew here
InitOutput ==
    /\ \E state \in OutputStates :
         gen = [i \in Inst |-> [State |-> state, Sequence |-> Word(1, 8)]]
    /\ seeded = [i \in Inst |-> Word(42, 4)]
    /\ out = [i \in Inst |-> <<>>]
    /\ last = [op |-> "Random", inst |-> 1, pre |-> gen[1], kind |-> "ok",
               val |-> ZERO32, ival |-> 0, str |-> <<>>, seedValue |-> ZERO32,
               min |-> 0, max |-> 0, length |-> 0, elements |-> <<>>,
               rd |-> NoEntropy]
    /\ NoIds
    /\ NoThreads
    /\ NoValues

NextOutput ==
    /\ DoRand(1)
    /\ UNCHANGED <<idVars, threadVars, valueVars>>

SpecOutput == InitOutput /\ [][NextOutput]_vars

(***************************************************************************)
(* The recurrence of rand() at word width 8: State and Sequence are words  *)
(* of one byte, the multiplier is taken modulo 2^8 by the multiplication.  *)
(***************************************************************************)

\* the states of width 8
States8 == {<<s>> : s \in 0..255}

\* most rand() calls followed from the starting state
MaxSteps == 256

\* the starting states and the streams tried: seed leaves the stream odd
Starts8 == {<<0>>, <<1>>, <<200>>}

Streams8 == {<<1>>, <<3>>, <<109>>, <<255>>}

InitOrbit ==
    /\ \E state \in Starts8, stream \in Streams8 :
         gen = [i \in Inst |-> [State |-> state, Sequence |-> stream]]
    /\ seeded = [i \in Inst |-> ZERO32]
    /\ out = [i \in Inst |-> <<>>]
    /\ last = [op |-> "Random", inst |-> 1, pre |-> gen[1], kind |-> "ok"]
    /\ NoIds
    /\ NoThreads
    /\ rect = [a |-> RectDefault, b |-> RectDefault, u |-> RectDefault,
               p |-> Origin, q |-> Origin, op |-> "none"]
    /\ colour = [c |-> Colour(F32_0, F32_0, F32_0, F32_0), n |-> 0,
                 op |-> "none"]
    /\ ease = [easeType |-> "Linear", fn |-> "linear", t |-> F32_0,
               result |-> F32_0, op |-> "none"]
    /\ orbit = <<gen[1].State>>
    /\ vec = [a |-> Vec4Zero, b |-> Vec4Zero, r |-> Vec4Zero, op |-> "none"]
    /\ mat = [a |-> Mat4Zero, b |-> Mat4Zero, a0 |-> Mat4Zero,
              b0 |-> Mat4Zero, op |-> "none"]

\* rand() on instance 1: the state it leaves is added to the orbit
DoStep ==
    /\ Len(orbit) <= MaxSteps
    /\ gen' = [gen EXCEPT ![1] = Rand(gen[1])]
    /\ orbit' = Append(orbit, gen'[1].State)

NextOrbit ==
    /\ DoStep
    /\ UNCHANGED <<seeded, out, last, idVars, threadVars, butOrbit>>

SpecOrbit == InitOrbit /\ [][NextOrbit]_vars

(***************************************************************************)
(* Rect and Colour values: the operations applied to one rectangle and to  *)
(* one colour                                                              *)
(***************************************************************************)

\* the generators after construction, no call made, default Rect and Colour
InitValues ==
    /\ gen = [i \in Inst |->
                 SeedGen(Unset, ZERO32, <<Word(0, 4), Word(54, 4), Word(42, 4)>>)]
    /\ seeded = [i \in Inst |-> ZERO32]
    /\ out = [i \in Inst |-> <<>>]
    /\ last = [op |-> "Random", inst |-> 1, pre |-> gen[1], kind |-> "ok"]
    /\ NoIds
    /\ NoThreads
    /\ NoValues

\* the coordinates of sides and points tried
Coords == {F32Int(0), F32Int(1), F32Int(3)}

\* the rectangles the four-argument constructor makes of them
Rects == {Rect(top, bottom, left, right) : top, bottom, left, right \in Coords}

\* the points tried
Points == {[x |-> x, y |-> y] : x, y \in Coords}

\* the sides that set() is given: a rectangle, one with Top below Bottom,
\* one with Right left of Left
SetArgs ==
    { <<F32Int(3), F32Int(0), F32Int(0), F32Int(1)>>,
      <<F32Int(0), F32Int(1), F32Int(0), F32Int(1)>>,
      <<F32Int(1), F32Int(0), F32Int(3), F32Int(0)>> }

\* the rectangle is constructed anew
DoRect ==
    \E top, bottom, left, right \in Coords :
        rect' = [a |-> Rect(top, bottom, left, right), b |-> RectDefault,
                 u |-> RectDefault, p |-> Origin, q |-> Origin,
                 op |-> "Rect"]

\* set(top, bottom, left, right) on the rectangle
DoSet ==
    \E args \in SetArgs :
        rect' = [a |-> Set(rect.a, args[1], args[2], args[3], args[4]),
                 b |-> RectDefault, u |-> RectDefault, p |-> Origin,
                 q |-> Origin, op |-> "set"]

\* unionWith(other) on the rectangle
DoUnionWith ==
    \E other \in Rects :
        rect' = [a |-> rect.a, b |-> other, u |-> UnionWith(rect.a, other),
                 p |-> Origin, q |-> Origin, op |-> "unionWith"]

\* the points clamped: each coordinate below, between or above the sides
ClampArgs ==
    {[x |-> x, y |-> y] : x, y \in {F32Int(-1), F32Int(0), F32Int(2), F32Int(4)}}

\* clampPoint(point) on the rectangle
DoClampPoint ==
    \E point \in ClampArgs :
        rect' = [a |-> rect.a, b |-> RectDefault, u |-> RectDefault,
                 p |-> point, q |-> ClampPoint(rect.a, point),
                 op |-> "clampPoint"]

NextRect ==
    /\ DoRect \/ DoSet \/ DoUnionWith \/ DoClampPoint
    /\ UNCHANGED <<gen, seeded, out, last, idVars, threadVars, butRect>>

SpecRect == InitValues /\ [][NextRect]_vars

\* most operations applied to one colour after its construction
MaxOps == 2

\* the red, green and blue arguments of the constructor tried
Channels == {F32Int(-1), F32Half, F32Int(2)}

\* the alpha arguments tried
Alphas == {F32Half, F32One}

\* the scalars, interpolation, brightness and contrast factors tried
Factors == {F32_0, F32Half, F32Int(2), F32Int(-1)}

\* the colours passed as the other operand
Others ==
    { Colour(F32One, F32Half, F32_0, F32One),
      Colour(F32Half, F32Half, F32Half, F32Half) }

\* the colour becomes c by operation op, one more operation applied
Applied(op, c) ==
    /\ colour.n < MaxOps
    /\ colour' = [c |-> c, n |-> colour.n + 1, op |-> op]

\* the colour is constructed anew
DoColour ==
    \E red, green, blue \in Channels, alpha \in Alphas :
        colour' = [c |-> Colour(red, green, blue, alpha), n |-> 0,
                   op |-> "Colour"]

DoPlus == \E other \in Others : Applied("operator+", ColourPlus(colour.c, other))

DoMinus == \E other \in Others : Applied("operator-", ColourMinus(colour.c, other))

DoTimes == \E scalar \in Factors : Applied("operator*", ColourTimes(colour.c, scalar))

DoLerp ==
    \E endColor \in Others, t \in Factors :
        Applied("lerp", Lerp(colour.c, endColor, t))

DoBlend == \E srcColor \in Others : Applied("blend", Blend(colour.c, srcColor))

DoInvert == Applied("invert", Invert(colour.c))

DoAdjustBrightness ==
    \E brightnessFactor \in Factors :
        Applied("adjustBrightness", AdjustBrightness(colour.c, brightnessFactor))

DoAdjustContrast ==
    \E contrastFactor \in Factors :
        Applied("adjustContrast", AdjustContrast(colour.c, contrastFactor))

NextColour ==
    /\ \/ DoColour
       \/ DoPlus
       \/ DoMinus
       \/ DoTimes
       \/ DoLerp
       \/ DoBlend
       \/ DoInvert
       \/ DoAdjustBrightness
       \/ DoAdjustContrast
    /\ UNCHANGED <<gen, seeded, out, last, idVars, threadVars, butColour>>

SpecColour == InitValues /\ [][NextColour]_vars

\* the t tried: the eighths from 0 to 1
EaseArgs == {F32Of(0, n, 0 - 3) : n \in 0..8}

\* the t an easing function of the model is defined for
EaseDomain(fn) ==
    CASE fn = "elastic" -> {t \in EaseArgs : F32Eq(t, F32_0) \/ F32Eq(t, F32One)}
      [] fn = "bounce"  -> {t \in EaseArgs :
                               F32Less(F32Mul(F32Int(11), t), F32Int(4))}
      [] OTHER          -> EaseArgs

\* auto f = getEaseFunction<f32>(easeType)
DoGetEaseFunction ==
    \E easeType \in EaseType :
        ease' = [easeType |-> easeType, fn |-> getEaseFunction(easeType),
                 t |-> F32_0, result |-> F32_0, op |-> "getEaseFunction"]

\* f(t), for the function got last
DoEase ==
    /\ ease.op # "none"
    /\ \E t \in EaseDomain(ease.fn) :
         ease' = [ease EXCEPT !.t = t, !.result = Ease(ease.fn, t),
                              !.op = "call"]

NextEase ==
    /\ DoGetEaseFunction \/ DoEase
    /\ UNCHANGED <<gen, seeded, out, last, idVars, threadVars, butEase>>

SpecEase == InitValues /\ [][NextEase]_vars

(***************************************************************************)
(* mat4 values: two matrices are made; a is assigned b, or made anew as a  *)
(* copy of b, or set to the identity.                                      *)
(***************************************************************************)

\* the matrices tried
Mat4Args ==
    { Mat4Fill(F32_0), Mat4Fill(F32One), Mat4Fill(F32Int(2)),
      Mat4Fill(F32Half), Mat4Identity,
      Mat4([i \in 1..16 |-> F32Int(i)]),
      Mat4([i \in 1..16 |-> F32Int(i - 8)]) }

\* a matrix operation has left matrices a and b
Made(op, a, b) ==
    mat' = [a |-> a, b |-> b, a0 |-> mat.a, b0 |-> mat.b, op |-> op]

\* mat4 a(...), b(...)
DoMat4 ==
    \E a \in Mat4Args, b \in Mat4Args :
        mat' = [a |-> a, b |-> b, a0 |-> a, b0 |-> b, op |-> "mat4"]

\* a = b
DoAssign == Made("operator=", Mat4Assign(mat.a, mat.b), mat.b)

\* mat4 a(b), in place of the a there was
DoCopy == Made("copy", Mat4Copy(mat.b), mat.b)

\* a.setAsIdentity()
DoSetAsIdentity == Made("setAsIdentity", Mat4Identity, mat.b)

NextMat ==
    /\ DoMat4 \/ DoAssign \/ DoCopy \/ DoSetAsIdentity
    /\ UNCHANGED <<gen, seeded, out, last, idVars, threadVars, butMat>>

SpecMat == InitValues /\ [][NextMat]_vars

(***************************************************************************)
(* vec4<int> values: two vectors are made, one is taken from the other by  *)
(* the free function or by the member, and the second is added back.       *)
(***************************************************************************)

\* the vectors tried
Vec4Args ==
    { Vec4(0, 0, 0, 0), Vec4(1, 2, 3, 4), Vec4(0, 0, 1, 0), Vec4(4, 3, 2, 1),
      Vec4(0 - 1, 5, 0 - 7, 2), Vec4(2, 2, 2, 2) }

\* vec4<int> a(...), b(...)
DoVec4 ==
    \E a \in Vec4Args, b \in Vec4Args :
        vec' = [a |-> a, b |-> b, r |-> Vec4Zero, op |-> "vec4"]

\* r = operator-(a, b)
DoOperatorMinus ==
    vec' = [vec EXCEPT !.r = OperatorMinus(vec.a, vec.b), !.op = "operator-"]

\* r = a.operator-(b), which is what the expression a - b calls
DoMemberMinus ==
    vec' = [vec EXCEPT !.r = MemberMinus(vec.a, vec.b), !.op = "member"]

\* r = operator+(r, b), on the r that a subtraction left
DoOperatorPlus ==
    /\ vec.op \in {"operator-", "member"}
    /\ vec' = [vec EXCEPT !.r = OperatorPlus(vec.r, vec.b),
                          !.op = IF vec.op = "member" THEN "member, operator+"
                                 ELSE "operator-, operator+"]

NextVec ==
    /\ DoVec4 \/ DoOperatorMinus \/ DoMemberMinus \/ DoOperatorPlus
    /\ UNCHANGED <<gen, seeded, out, last, idVars, threadVars, butVec>>

SpecVec == InitValues /\ [][NextVec]_vars

(***************************************************************************)
(* Claims                                                                  *)
(***************************************************************************)

Min(a, b) == IF a <= b THEN a ELSE b

Letters ==
    {"a", "b", "c", "d", "e", "f", "g", "h", "i", "j", "k", "l", "m",
     "n", "o", "p", "q", "r", "s", "t", "u", "v", "w", "x", "y", "z",
     "A", "B", "C", "D", "E", "F", "G", "H", "I", "J", "K", "L", "M",
     "N", "O", "P", "Q", "R", "S", "T", "U", "V", "W", "X", "Y", "Z"}

Digits == {"0", "1", "2", "3", "4", "5", "6", "7", "8", "9"}

\* C1: two instances whose last seed call had the same non-zero seedValue have
\* returned the same values from rand() since, draw for draw, whatever state
\* each was in before that seed call.
C1_Determinism ==
    \A a, b \in Inst :
        seeded[a] = seeded[b] /\ seeded[a] # ZERO32 =>
            \A k \in 1..Min(Len(out[a]), Len(out[b])) : out[a][k] = out[b][k]

\* both instances were seeded with the same non-zero value and each has made
\* three draws since
C1_Witness ==
    /\ seeded[1] = seeded[2] /\ seeded[1] # ZERO32
    /\ Len(out[1]) >= 3 /\ Len(out[2]) >= 3
    /\ out[1] = out[2]

\* C2: in every reachable state the stream selector of every instance is odd.
C2_StreamOdd == \A i \in Inst : Bit(gen[i].Sequence, 0) = 1

\* an entropy seed whose second value has its top bit set (the 32-bit shift
\* drops it) has been followed by draws
C2_Witness ==
    /\ seeded[1] = ZERO32
    /\ gen[1].Sequence = Word(3, 8)
    /\ Len(out[1]) >= 2

\* the rotation amount old >> 59, read off the five top bits
RotOf(old) ==
    Bit(old, 59) + 2 * Bit(old, 60) + 4 * Bit(old, 61) + 8 * Bit(old, 62)
    + 16 * Bit(old, 63)

\* bit m of x = (((old >> 18) XOR old) >> 27) mod 2^32: bit m + 27 of old,
\* XORed with bit m + 45 of old where old has such a bit
XorShiftedBit(old, m) ==
    (Bit(old, m + 27) + (IF m + 45 <= 63 THEN Bit(old, m + 45) ELSE 0)) % 2

RECURSIVE Scale(_, _, _, _)
\* the word a times the byte c, modulo 2^(8 * Len(a))
Scale(a, c, k, carry) ==
    IF k > Len(a) THEN <<>>
    ELSE LET p == a[k] * c + carry
         IN  <<p % 256>> \o Scale(a, c, k + 1, p \div 256)

RECURSIVE RowMul(_, _, _)
\* a * m modulo 2^64, row by row: the sum over the bytes m[k] of
\* (a * m[k]) << 8 * (k - 1)
RowMul(a, m, k) ==
    IF k > 8 THEN Word(0, 8)
    ELSE Add(Shl(Scale(a, m[k], 1, 0), 8 * (k - 1)), RowMul(a, m, k + 1))

\* C3: one rand() call on state old leaves (old * 6364136223846793005 + stream)
\* mod 2^64 as the state and returns x rotated right by r = old >> 59, where
\* x = (((old >> 18) XOR old) >> 27) mod 2^32: bit j of the result is bit
\* (j + r) mod 32 of x, a function of old alone.
C3_RandStep ==
    last.op = "rand" =>
        LET old == last.pre.State
        IN  /\ gen[last.inst].State =
                   Add(RowMul(old, MULTIPLIER, 1), last.pre.Sequence)
            /\ gen[last.inst].Sequence = last.pre.Sequence
            /\ last.kind = "ok"
            /\ \A j \in 0..31 :
                   Bit(last.val, j) = XorShiftedBit(old, (j + RotOf(old)) % 32)

\* a rand() call has returned, made on a state whose rotation amount is not 0
\* and whose stream is not 1
C3_Witness ==
    /\ last.op = "rand"
    /\ RotOf(last.pre.State) > 0
    /\ last.pre.Sequence # Word(1, 8)
    /\ last.val # ZERO32

\* s * 6364136223846793005 + 1 modulo 2^64
StepOne(s) == Add(RowMul(s, MULTIPLIER, 1), Word(1, 8))

\* C4: after seed(S) with S # 0, stream = 1 and state =
\* step(step(S) + 0x853c49e6748fea9b) with step(s) = s * 6364136223846793005 + 1:
\* two advances have been discarded.
C4_ExplicitSeed ==
    last.op = "seed" /\ last.seedValue # ZERO32 =>
        /\ gen[last.inst].Sequence = Word(1, 8)
        /\ gen[last.inst].State =
               StepOne(Add(StepOne(Widen(last.seedValue, 8)), MIXER))

\* seed(0xFFFFFFFF) has returned on a generator that had an entropy stream and
\* had made draws
C4_Witness ==
    /\ last.op = "seed"
    /\ last.seedValue = UINT_MAX32
    /\ last.pre.Sequence # Word(1, 8)
    /\ gen[last.inst].Sequence = Word(1, 8)

\* C5: rand(min, max) with min <= max returns a value v with
\* min <= v <= max, and min when min = max, on every generator state.
C5_RangeContainment ==
    last.op = "randRange" /\ last.min <= last.max =>
        /\ last.kind = "ok"
        /\ last.min <= last.ival /\ last.ival <= last.max

\* C6: rand(min, max) with max < min ends with invalid_argument instead of
\* returning a value.
C6_InvalidRangeRejected ==
    last.op = "randRange" /\ last.max < last.min =>
        last.kind = "invalid_argument"

StringOps == {"randString", "randAlphaNumericString"}

\* C7: randString(n) and randAlphaNumericString(n) with n >= 1 return a string
\* of exactly n characters, on every generator state.
C7_StringLength ==
    last.op \in StringOps /\ last.length >= 1 =>
        last.kind = "ok" /\ Len(last.str) = last.length

\* a string of two characters has been returned on a generator that had
\* made a draw before
C7_Witness ==
    /\ last.op \in StringOps
    /\ last.length = 2
    /\ Len(last.str) = 2
    /\ Len(out[last.inst]) = 3

\* C8: every character randString returns is a letter, and every character
\* randAlphaNumericString returns is a letter or a digit.
C8_Alphabet ==
    /\ last.op = "randString" =>
           \A k \in 1..Len(last.str) : last.str[k] \in Letters
    /\ last.op = "randAlphaNumericString" =>
           \A k \in 1..Len(last.str) : last.str[k] \in Letters \cup Digits

\* C9: randString(0) and randAlphaNumericString(0) end with invalid_argument
\* and make no draw: the generator is as it was before the call.
C9_ZeroLengthRejected ==
    last.op \in StringOps /\ last.length = 0 =>
        /\ last.kind = "invalid_argument"
        /\ gen[last.inst] = last.pre
        /\ last.str = <<>>

\* a zero-length request has been rejected on a generator that had made draws
C9_Witness ==
    /\ last.op \in StringOps
    /\ last.length = 0
    /\ last.kind = "invalid_argument"
    /\ Len(out[last.inst]) >= 1

\* C10: getRandomElement on an empty vector ends with invalid_argument and
\* makes no draw: the generator is as it was before the call.
C10_EmptyVectorRejected ==
    last.op = "getRandomElement" /\ last.elements = <<>> =>
        /\ last.kind = "invalid_argument"
        /\ gen[last.inst] = last.pre

\* an empty vector has been rejected on a generator that had made draws
C10_Witness ==
    /\ last.op = "getRandomElement"
    /\ last.elements = <<>>
    /\ last.kind = "invalid_argument"
    /\ Len(out[last.inst]) >= 1

\* C11: getRandomElement on a non-empty vector of n elements returns the
\* element at index k = (the value rand() returns on the generator before the
\* call) mod n, the remainder taken by 32-bit long division; k is an index of
\* the vector, and a one-element vector <<x>> always gives x.
C11_IndexedElement ==
    last.op = "getRandomElement" /\ last.elements # <<>> =>
        LET n == Len(last.elements)
            k == ToInt(Mod32(RandValue(last.pre), ToU32(n)))
        IN  /\ last.kind = "ok"
            /\ k \in 0..(n - 1)
            /\ last.ival = last.elements[k + 1]
            /\ n = 1 => last.ival = last.elements[1]

\* an element other than the first has been returned from a vector of three
C11_Witness ==
    /\ last.op = "getRandomElement"
    /\ Len(last.elements) = 3
    /\ last.kind = "ok"
    /\ last.ival # last.elements[1]

\* the number of positions of sequence q that hold x
Count(q, x) == Cardinality({k \in 1..Len(q) : q[k] = x})

\* C12: shuffleVector leaves the container with the length it had and with
\* every value as many times as before: a permutation of the input, for
\* containers with an element twice and the empty one too.
C12_Permutation ==
    last.op = "shuffleVector" =>
        /\ last.kind = "ok"
        /\ Len(last.vec) = Len(last.elements)
        /\ \A k \in 1..Len(last.elements) :
               Count(last.vec, last.elements[k])
                   = Count(last.elements, last.elements[k])

\* a container of three has been left in another order than it had
C12_Witness ==
    /\ last.op = "shuffleVector"
    /\ last.elements = <<3, 9, 4>>
    /\ last.vec = <<4, 3, 9>>

\* the statements that read or write State or Sequence
AccessStatements ==
    {"rand_read", "rand_write", "seed_state", "seed_seq", "seed_sum",
     "seed_store"}

\* C13: a thread that is about to read or write State or Sequence holds the
\* mutex of the instance, in seed() as in rand(); and between the read and
\* the write of a rand() step no other thread has written State, which still
\* is the value the thread read.
C13_LockedAccess ==
    \A t \in Threads :
        /\ pc[t] \in AccessStatements => mutex = t
        /\ pc[t] = "rand_write" => gen[1].State = reg[t].old_state

\* C14: the reads and writes of State and Sequence that one call makes are
\* consecutive: no call comes back in the log after another call's access.
C14_AtomicCalls ==
    \A a, b \in 1..Len(log) : log[a] = log[b] => a = b

\* C15: an instance's results do not depend on the calls made on another
\* instance: the counter in the ID that generateID() returns on an instance
\* is the number of generateID() calls made on that instance, this one
\* included, as it is when no other instance is ever called.
C15_IndependentInstances ==
    last.op = "generateID" =>
        last.id.counter =
            Cardinality({k \in 1..Len(ids) : ids[k].inst = last.inst})

\* the statements of counter++
CounterStatements == {"id_read", "id_write"}

\* C16: the counter of generateID is read and written under the mutex, the
\* counter values in the IDs returned differ from one another, and with no
\* call of generateID under way the counter is the number of calls that
\* have returned (0 before the first).
C16_CounterCounts ==
    /\ \A t \in Threads : pc[t] \in CounterStatements => mutex = t
    /\ \A a, b \in 1..Len(ids) : ids[a].counter = ids[b].counter => a = b
    /\ (\A t \in Threads : reg[t].op # "generateID") => counter = Len(ids)

\* C17: under fair scheduling every call a thread is in returns; no thread
\* waits for the mutex while it holds it; a thread that is in no call, having
\* returned or thrown, does not hold the mutex.
C17_NeverBlocks ==
    /\ \A t \in Threads : (pc[t] # "idle") ~> (pc[t] = "idle")
    /\ [](\A t \in Threads : pc[t] = "rand_lock" => mutex # t)
    /\ [](\A t \in Threads : pc[t] = "idle" => mutex # t)

\* a thread in randString waits for the mutex for its second draw while the
\* other thread holds it
C17_Witness ==
    /\ pc[1] = "rand_lock"
    /\ reg[1].op = "randString"
    /\ reg[1].i = 1
    /\ mutex = 2

\* C18: randF(min, max) with min <= max returns a value v with
\* min <= v <= max; the draw divided by the f32 of 2^32 - 1 is in [0, 1],
\* 0 for the draw 0 and 1 for the draw 2^32 - 1.
C18_FloatRange ==
    last.op = "randF" /\ F32Leq(last.min, last.max) =>
        /\ F32Leq(F32_0, last.unit) /\ F32Leq(last.unit, F32One)
        /\ last.val = ZERO32 => last.unit = F32_0
        /\ last.val = UINT_MAX32 => last.unit = F32One
        /\ F32Leq(last.min, last.fval) /\ F32Leq(last.fval, last.max)

\* C19: unionWith returns the union rectangle: a point that either
\* rectangle contains is contained in the result, and the sides of the
\* result are the least Left, the greatest Right, the least Bottom and the
\* greatest Top of the two.
C19_Union ==
    rect.op = "unionWith" =>
        /\ \A point \in Points :
               Contains(rect.a, point) \/ Contains(rect.b, point) =>
                   Contains(rect.u, point)
        /\ rect.u.Left = QmMin(rect.a.Left, rect.b.Left)
        /\ rect.u.Right = QmMax(rect.a.Right, rect.b.Right)
        /\ rect.u.Bottom = QmMin(rect.a.Bottom, rect.b.Bottom)
        /\ rect.u.Top = QmMax(rect.a.Top, rect.b.Top)

\* C20: after construction and after every operation applied since, each of
\* r, g, b, a of the colour is in [0.0, 1.0].
C20_Normalized ==
    /\ F32Leq(F32_0, colour.c.r) /\ F32Leq(colour.c.r, F32One)
    /\ F32Leq(F32_0, colour.c.g) /\ F32Leq(colour.c.g, F32One)
    /\ F32Leq(F32_0, colour.c.b) /\ F32Leq(colour.c.b, F32One)
    /\ F32Leq(F32_0, colour.c.a) /\ F32Leq(colour.c.a, F32One)

\* C21: the function getEaseFunction returns for an EaseType value gives,
\* for every t, the result of the easing function of that name; for Linear
\* and for a value that is no enumerator it gives t.
C21_NamedEase ==
    ease.op = "call" =>
        /\ ease.result = Ease(NamedEase(ease.easeType), ease.t)
        /\ ease.easeType \in {"Linear", "Unknown"} => ease.result = ease.t

\* C22: whatever constructor and set() calls made the rectangle, the point
\* clampPoint returns is contained in the rectangle, and it is the point
\* given when the rectangle contains that point.
C22_ClampInside ==
    rect.op = "clampPoint" =>
        /\ Contains(rect.a, rect.q)
        /\ Contains(rect.a, rect.p) => rect.q = rect.p

\* n calls of rand() made one after the other on generator g: the generator
\* after them, and the values they return
RECURSIVE RandTimes(_, _)
RandTimes(g, n) == IF n = 0 THEN g ELSE Rand(RandTimes(g, n - 1))

Sequential(g, n) == [k \in 1..n |-> RandValue(RandTimes(g, k - 1))]

\* C23: with threads calling rand() at once, the k calls that have returned
\* have advanced the state by k steps from the state at construction, and
\* the values returned, in the order the calls held the mutex, are the first
\* k values of the sequence one thread alone would get.
C23_NoLostUpdate ==
    LET k == Len(out[1])
    IN  /\ gen[1] = RandTimes(last.pre, k)
        /\ out[1] = Sequential(last.pre, k)
        /\ \A t \in Threads :
               pc[t] \in {"rand_read", "rand_write"} => mutex = t

\* two calls have returned, thread 2 is inside the third between its read
\* and its write, and thread 1 waits for the mutex with the fourth
C23_Witness ==
    /\ Len(out[1]) = 2
    /\ pc[2] = "rand_write" /\ mutex = 2
    /\ pc[1] = "rand_lock"

\* one step of the generator's recurrence on state s with a stream
StepWith(s, stream) == Add(RowMul(s, MULTIPLIER, 1), stream)

\* C24: seed() and seed(0) (one call: 0 is the default argument) take the
\* entropy path: with e1, e2, e3 the values std::random_device gave, in that
\* order, stream = (e2 << 1) | 1, the shift made on 32 bits as on the
\* unsigned int it is applied to, and state = step(step(e1) + e3) with
\* step(s) = s * 6364136223846793005 + stream: the result is made of the
\* entropy values, not of the argument.
C24_EntropySeed ==
    last.op = "seed" /\ last.seedValue = ZERO32 =>
        LET stream == Widen(Or(Shl(last.rd[2], 1), Word(1, 4)), 8)
        IN  /\ gen[last.inst].Sequence = stream
            /\ gen[last.inst].State =
                   StepWith(Add(StepWith(Widen(last.rd[1], 8), stream),
                                Widen(last.rd[3], 8)), stream)

\* seed(0) has returned on a generator that had been seeded explicitly; the
\* second entropy value had its top bit set, which the shift drops
C24_Witness ==
    /\ last.op = "seed"
    /\ last.seedValue = ZERO32
    /\ last.rd = <<UINT_MAX32, <<1, 0, 0, 128>>, UINT_MAX32>>
    /\ last.pre.Sequence = Word(1, 8)
    /\ gen[last.inst].Sequence = Word(3, 8)

\* rot = static_cast<u_least32>(old_state >> 59u), a 32-bit word
RotWord(old_state) == Trunc(Shr(old_state, 59), 4)

\* the number a 32-bit word below 256 stands for, 256 for the others
Small(w) == IF w[2] = 0 /\ w[3] = 0 /\ w[4] = 0 THEN w[1] ELSE 256

\* (-rot) & 31 on 32 bits: the five low bits of 0 - rot
LeftAmount(rot) == Small(<<Sub(ZERO32, rot)[1] % 32, 0, 0, 0>>)

\* C25: for the state a rand() call reads, rot = old >> 59 is in 0..31 and
\* the left shift amount (-rot) & 31 is in 0..31, the two adding up to 32
\* unless both are 0; with rot = 0 the value returned is xorshifted itself.
C25_ShiftAmounts ==
    last.op = "rand" =>
        LET old         == last.pre.State
            rot         == Small(RotWord(old))
            left        == LeftAmount(RotWord(old))
            xor_shifted == Trunc(Shr(Xor(Shr(old, 18), old), 27), 4)
        IN  /\ rot \in 0..31
            /\ left \in 0..31
            /\ rot # 0 => rot + left = 32
            /\ rot = 0 => left = 0 /\ last.val = xor_shifted

\* rand() has returned on a state whose five top bits are 0 and whose bit 58
\* is 1, with a xorshifted that a rotation would change
C25_Witness ==
    /\ last.op = "rand"
    /\ last.pre.State = <<165, 165, 165, 165, 165, 165, 165, 4>>
    /\ Small(RotWord(last.pre.State)) = 0
    /\ last.val # ZERO32

\* C26: with an odd stream the states that successive rand() calls lead
\* through differ from one another until as many calls are made as there
\* are states, and the state is then the starting state again: two states
\* of the orbit are the same exactly if a multiple of the period lies
\* between them (width 8: period 2^8).  The state update maps no two states
\* to one.
C26_FullPeriod ==
    LET n      == Len(orbit)
        period == Cardinality(States8)
    IN  /\ \A i \in 1..n :
               orbit[i] = orbit[n] <=> (n - i) % period = 0
        /\ Cardinality({RandState([State |-> state,
                                   Sequence |-> gen[1].Sequence]) :
                            state \in States8}) = period

\* 256 calls made from state 200 with stream 109 have come back to it
C26_Witness ==
    /\ Len(orbit) = Cardinality(States8) + 1
    /\ orbit[1] = <<200>>
    /\ gen[1] = [State |-> <<200>>, Sequence |-> <<109>>]
    /\ Cardinality({orbit[i] : i \in 1..Cardinality(States8)})
           = Cardinality(States8)

\* the operations that make one rand() call if they return
DrawOnce ==
    {"randRange", "randF", "coinFlip", "getRandomElement", "shuffleVector",
     "generateID"}

\* C27: no operation but seed changes m_generatorState.Sequence; a call of
\* rand(min, max), randF, coinFlip, getRandomElement on a non-empty vector,
\* shuffleVector on a vector of any size, or generateID that returns leaves
\* the state one step of the recurrence from the state before the call.
C27_OnlySeedChangesStream ==
    LET g == gen[last.inst]
    IN  /\ last.op \notin {"seed", "Random"} =>
               g.Sequence = last.pre.Sequence
        /\ last.op \in DrawOnce /\ last.kind = "ok" =>
               g.State = StepWith(last.pre.State, last.pre.Sequence)
        /\ last.op = "randNormal" => g = last.pre

\* a shuffleVector call on an empty vector has returned, on a generator that
\* generateID has drawn from before
C27_Witness ==
    /\ last.op = "shuffleVector"
    /\ last.elements = <<>>
    /\ last.kind = "ok"
    /\ ids # <<>>
    /\ gen[1].State = StepWith(last.pre.State, last.pre.Sequence)
    /\ gen[1].State # last.pre.State

\* the generators that construction may leave: Random() { seed(); }
Fresh == {SeedGen(Unset, ZERO32, rd) : rd \in EntropyDraws}

\* C28: seed(S) with S # 0, called on a generator in whatever state, leaves
\* the state and stream that seed(S) leaves on a generator just constructed,
\* and a second seed(S) right after it changes nothing.
C28_ReseedForgets ==
    last.op = "seed" /\ last.seedValue # ZERO32 =>
        LET g == gen[last.inst]
        IN  /\ \A fresh \in Fresh :
                   g = SeedGen(fresh, last.seedValue, NoEntropy)
            /\ SeedGen(g, last.seedValue, NoEntropy) = g

\* seed(42) is called on a generator that was seeded with a value other than
\* 0 before and has drawn since
C28_Witness ==
    /\ last.op = "seed"
    /\ last.seedValue = Word(42, 4)
    /\ last.pre.Sequence = Word(1, 8)
    /\ last.pre \notin Fresh
    /\ \A seedValue \in SeedValues \ {ZERO32} :
           last.pre # SeedGen(Unset, seedValue, NoEntropy)
    /\ gen[1] = SeedGen(Unset, Word(42, 4), NoEntropy)

\* C29: the free function operator-(a, b) on vec4<int> gives
\* (a.x - b.x, a.y - b.y, a.z - b.z, a.w - b.w), which is what the member
\* a.operator-(b) gives, and operator+ of that and b is equal to a.
C29_FreeMinus ==
    /\ vec.op = "operator-" =>
           /\ vec.r = Vec4(vec.a.x - vec.b.x, vec.a.y - vec.b.y,
                           vec.a.z - vec.b.z, vec.a.w - vec.b.w)
           /\ vec.r = MemberMinus(vec.a, vec.b)
    /\ vec.op = "operator-, operator+" => OperatorEq(vec.r, vec.a)

\* C30: after a = b on mat4, and after a is constructed as a copy of b,
\* a(row, col) is equal to b(row, col) at each of the 16 positions, and b is
\* what it was before.
C30_AssignCopies ==
    mat.op \in {"operator=", "copy"} =>
        /\ \A row \in 0..3, col \in 0..3 :
               F32Eq(ElementAt(mat.a, row, col), ElementAt(mat.b, row, col))
        /\ mat.b = mat.b0

=============================================================================
